---- MODULE Spec2Model ----
(***************************************************************************)
(* Verification model of web-camera-kit.                                   *)
(*                                                                         *)
(* Three components are modelled, each with its own specification over the *)
(* shared variable tuple (a component's actions leave the other            *)
(* components' variables unchanged):                                       *)
(*   SpecPreview : components/CameraPreview.tsx (native camera preview)    *)
(*   SpecDirect  : hooks/useCameraKitDirect.ts + its CameraKitPreview      *)
(*   SpecKit     : hooks/useCameraKit.ts + utils/CanvasRecorder.ts         *)
(*                                                                         *)
(* Granularity: one action per event handler, timer callback or promise    *)
(* continuation.  A handler's React state updates, the render that follows *)
(* them and the effects that render triggers are part of the same action.  *)
(***************************************************************************)
EXTENDS Integers, Sequences, FiniteSets, TLC

VARIABLES
  \* ---- CameraPreview.tsx ----
  isReady, error, mediaStream, isRecording, retryCount, isInitializing,
  facing, mode, isPWA, isMobile, recorderSupported,
  webcam, mediaRecorderRef, visibility,
  retryTimers, initTimeoutPending, doneTimers, visTimers,
  autoAttempts,
  streamLive, processedLive, stoppedByHide,
  canvasVideo, animationFrameRef, staleLoading, staleLoops,
  chunks, lastVideo, recorderMisused,
  \* ---- useCameraKitDirect.ts ----
  dState, cameraKitRef, sessionRef, mediaStreamRef, mediaStreamSourceRef, lensRef,
  envConfigured, kits, sessions, streams, procs,
  midFlightCleanup, switchCount, seqClean, thrown,
  \* ---- useCameraKit.ts / CanvasRecorder.ts ----
  kState, startTimestampAge, held, startTimers, recorders, orphans,
  lastSaved, lastStartCalled, recordedBlobs, pendingData, savedVideo,
  \* ---- useCameraKit.ts (camera and session) ----
  cState, effectCleanup, cKits, cSessions, cStreams, cProcs, lastOutcome,
  \* ---- VideoRecorder ----
  vr, vrRecorders, canvasTracks, audioTracks, vrProcs, skipConversion, vrResult,
  \* ---- CanvasRecorder ----
  codecSettings, typeSupported, canvasRec, startError, shareStep,
  \* ---- useMobileDetection ----
  mdEnv, mdState, mdMounted,
  \* ---- the last step taken (history, all components) ----
  last

previewVars == <<isReady, error, mediaStream, isRecording, retryCount,
                 isInitializing, facing, mode, isPWA, isMobile,
                 recorderSupported, webcam, mediaRecorderRef, visibility,
                 retryTimers, initTimeoutPending, doneTimers, visTimers,
                 autoAttempts, streamLive, processedLive, stoppedByHide,
                 canvasVideo, animationFrameRef, staleLoading, staleLoops,
                 chunks, lastVideo, recorderMisused>>

directCore == <<dState, cameraKitRef, sessionRef, mediaStreamRef,
                mediaStreamSourceRef, lensRef, envConfigured, kits, sessions,
                streams, procs, midFlightCleanup, switchCount, seqClean>>

directVars == <<directCore, thrown>>

kitVars == <<kState, startTimestampAge, held, startTimers, recorders, orphans,
             lastSaved, lastStartCalled, recordedBlobs, pendingData, savedVideo>>

kitCameraVars == <<cState, effectCleanup, cKits, cSessions, cStreams, cProcs,
                   lastOutcome>>

recorderVars == <<vr, vrRecorders, canvasTracks, audioTracks, vrProcs,
                  skipConversion, vrResult>>

canvasRecorderVars == <<codecSettings, typeSupported, canvasRec, startError, shareStep>>

mobileVars == <<mdEnv, mdState, mdMounted>>

otherThanPreview == <<directVars, kitVars, kitCameraVars, recorderVars, canvasRecorderVars,
    mobileVars>>
otherThanDirect == <<previewVars, kitVars, kitCameraVars, recorderVars, canvasRecorderVars,
    mobileVars>>
otherThanKit == <<previewVars, directVars, kitCameraVars, recorderVars, canvasRecorderVars,
    mobileVars>>
otherThanKitCamera == <<previewVars, directVars, kitVars, recorderVars, canvasRecorderVars,
    mobileVars>>
otherThanRecorder == <<previewVars, directVars, kitVars, kitCameraVars, canvasRecorderVars,
    mobileVars>>
otherThanCanvasRecorder == <<previewVars, directVars, kitVars, kitCameraVars, recorderVars,
    mobileVars>>
otherThanMobile == <<previewVars, directVars, kitVars, kitCameraVars, recorderVars,
                     canvasRecorderVars>>

vars == <<previewVars, directVars, kitVars, kitCameraVars, recorderVars,
          canvasRecorderVars, mobileVars, last>>

NULL == "NULL"

\* ---------------------------------------------------------------------
\* Bounds of the model (not program constants)
\* ---------------------------------------------------------------------
MaxRetryTimers == 2   \* pending retry timers besides the one initTimeoutRef holds
MaxDoneTimers == 2    \* pending setIsInitializing(false) timers
MaxVisTimers == 1     \* pending timers of the visible branch
MaxRetryCount == 4    \* cap on retryCount (the visibility timer increments it without limit)
MaxProcs == 2         \* asynchronous invocations of the Direct hook in flight at once
MaxStreams == 3       \* media streams getUserMedia hands to the Direct hook
MaxSessions == 2      \* Camera Kit sessions created
MaxKits == 2          \* Camera Kit bootstraps
MaxRecorders == 2     \* CanvasRecorder objects created by setupRecorder
MaxStartTimers == 2   \* pending 300 ms start timers of useCameraKit
MaxOrphans == 1       \* MediaRecorders replaced by a later start() while recording
TickMs == 100         \* granularity of the clock, in ms
MaxChunks == 2        \* chunks a recorder collects in one recording
MaxStaleLoading == 1  \* hidden videos of earlier canvases still loading their metadata
MaxStaleLoops == 1    \* compositing loops of earlier canvases still running
MaxEarlierChunks == 1 \* chunks of earlier recordings counted in a chunks array
MaxStarts == 2        \* startRecording invocations of a VideoRecorder that pass its guard
MaxRecorderChunks == 2 \* chunks in recordedChunks, and chunks one MediaRecorder delivers
MaxRecorderProcs == 2 \* conversions of a VideoRecorder in flight at once
MaxCodecs == 2        \* entries of settings.recodeVideoCodecs

\* =====================================================================
\* CameraPreview.tsx
\* =====================================================================
ErrInit == "Camera initialization failed"
ErrRecFailed == "Recording failed. Please try again."
ErrNotSupported == "Recording not supported on this device."
ErrStart == "Failed to start recording."

\* line 410: the retry guard of handleUserMediaError
CanRetryMut(rc) == rc <= 3
CanRetry(rc) == rc < 3

\* line 586: the Webcam key is webcam-${facing}-${selectedDeviceId}-${retryCount};
\* a render with a different key unmounts the Webcam and mounts a new one,
\* which requests the camera again.
WebcamKey(f, rc) == <<f, rc>>
Remount(oldKey, newKey, w) == IF oldKey # newKey THEN "requesting" ELSE w

\* line 338: the guard of start().  Lines 305, 326, 352, 451 and 492: the
\* guard of every stop().
StartGuard(rec) == rec # NULL /\ rec = "inactive"
StopGuardMut(rec) == rec # NULL
StopGuard(rec) == rec # NULL /\ rec = "recording"

\* lines 297-308 (and 326-328, 450-453): a recorder that is recording is
\* stopped, any other is left as it is.
StopIfRecording(rec) == IF StopGuard(rec) THEN "inactive" ELSE rec

\* start() is invoked on a recorder that is not inactive; stop() is invoked
\* on a recorder that is not recording (the handlers that stop a recorder
\* do it once, or a second time on the recorder the first left inactive)
StartMisused(rec) == StartGuard(rec) /\ rec # "inactive"
StopMisused(rec) == StopGuard(rec) /\ rec # "recording"

\* lines 247-309: the effect on [mediaStream, mode, ...]: the cleanup of the
\* previous run stops a recording recorder; with a stream in video mode a
\* new MediaRecorder is created (or its construction throws).
EffectCreates(stream, m) == stream # NULL /\ m = "video"
RecorderAfterEffect(rec, stream, m, supported) ==
  IF EffectCreates(stream, m) /\ supported THEN "inactive" ELSE StopIfRecording(rec)
ErrorAfterEffect(e, stream, m, supported) ==
  IF EffectCreates(stream, m) /\ ~supported THEN ErrNotSupported ELSE e

\* lines 440-443 and 446-448: getTracks().forEach(track => track.stop()); the
\* argument and the result say whether the tracks are live
StopTracksMut(live) == live
StopTracks(live) == FALSE

\* what the last step, if it was the hidden branch of
\* handleVisibilityChange, found running
NothingStopped == [stream |-> FALSE, processed |-> FALSE, recorder |-> FALSE]

\* lines 299-301 (and 318-320): cancelAnimationFrame(animationFrameRef.current)
\* cancels the request the ref holds, that is the pending frame of the loop
\* that wrote the ref last; the ref keeps the cancelled id.  The canvas of the
\* run that is cleaned up is then no longer the current one: a loop of it
\* that was not cancelled goes on, and a hidden video of it that has not
\* loaded its metadata still loads them if its source stream is live.
CleanupEffect(srcLive) ==
  LET cur == IF animationFrameRef = "current" THEN "none" ELSE canvasVideo
      loops == IF animationFrameRef = "stale" THEN staleLoops - 1 ELSE staleLoops
  IN [animationFrameRef |-> IF animationFrameRef \in {"current", "stale"}
                              THEN "cancelled" ELSE animationFrameRef,
      staleLoops |-> loops + (IF cur = "looping" THEN 1 ELSE 0),
      staleLoading |-> IF srcLive
                         THEN staleLoading + (IF cur = "loading" THEN 1 ELSE 0)
                         ELSE 0]

\* lines 247-309: the cleanup of the previous run of the effect followed by
\* the body of the new run, which creates a processing canvas (162-244) when
\* creates is true
RunEffect(srcLive, creates) ==
  LET c == CleanupEffect(srcLive)
  IN /\ c.staleLoading <= MaxStaleLoading
     /\ c.staleLoops <= MaxStaleLoops
     /\ canvasVideo' = IF creates THEN "loading" ELSE "none"
     /\ animationFrameRef' = c.animationFrameRef
     /\ staleLoading' = c.staleLoading
     /\ staleLoops' = c.staleLoops

loopVars == <<canvasVideo, animationFrameRef, staleLoading, staleLoops>>

\* the smaller of two numbers (counters are capped at their bounds)
Min(a, b) == IF a < b THEN a ELSE b

\* lines 265-280: stop() delivers the data gathered since the last chunk and
\* then the stop event, whose handler builds the video from the chunks array
\* and passes it to onCapture; lastVideo is the video the last step passed
\* (its chunks by origin), NoChunks if it passed none
NoChunks == [earlier |-> 0, own |-> 0]
VideoOnStop(ch) == [earlier |-> ch.earlier, own |-> Min(ch.own + 1, MaxChunks)]
CapturedAfterStop(rec, ch) == IF rec = "recording" THEN VideoOnStop(ch) ELSE NoChunks
ChunksAfterStop(rec, ch) == IF rec = "recording" THEN VideoOnStop(ch) ELSE ch
\* line 265: const chunks = [] is executed once for each MediaRecorder
ChunksAfterEffect(rec, ch, stream, m, supported) ==
  IF EffectCreates(stream, m) /\ supported THEN NoChunks ELSE ChunksAfterStop(rec, ch)

PreviewInit ==
  /\ isReady = FALSE
  /\ error = NULL
  /\ mediaStream = NULL
  /\ isRecording = FALSE
  /\ retryCount = 0
  /\ isInitializing = TRUE          \* the reset effect has run on mount
  /\ facing = "environment"
  /\ mode \in {"photo", "video"}
  /\ isPWA \in BOOLEAN
  /\ isMobile \in BOOLEAN
  /\ recorderSupported \in BOOLEAN
  /\ webcam = "requesting"
  /\ mediaRecorderRef = NULL
  /\ visibility = "visible"
  /\ retryTimers = 0
  /\ initTimeoutPending = FALSE
  /\ doneTimers = 1                 \* the 100 ms timer of the reset effect
  /\ visTimers = 0
  /\ autoAttempts = 0
  /\ streamLive = FALSE
  /\ processedLive = FALSE
  /\ stoppedByHide = NothingStopped
  /\ canvasVideo = "none"
  /\ animationFrameRef = "none"
  /\ staleLoading = 0
  /\ staleLoops = 0
  /\ chunks = NoChunks
  /\ lastVideo = NoChunks
  /\ recorderMisused = FALSE

previewStatic == <<isPWA, isMobile, recorderSupported>>

\* lines 388-401: the Webcam delivers a stream.  setRetryCount(0) changes the
\* Webcam key when retryCount was not 0: the Webcam that delivered the stream
\* is unmounted, which stops the stream.
handleUserMedia ==
  /\ webcam = "requesting"
  /\ isInitializing' = FALSE
  /\ isReady' = TRUE
  /\ mediaStream' = "stream"
  /\ retryCount' = 0
  /\ autoAttempts' = 0
  /\ error' = ErrorAfterEffect(NULL, "stream", mode, recorderSupported)
  /\ mediaRecorderRef' = RecorderAfterEffect(mediaRecorderRef, "stream", mode, recorderSupported)
  /\ isRecording' = IF mediaRecorderRef = "recording" THEN FALSE ELSE isRecording
  /\ webcam' = Remount(WebcamKey(facing, retryCount), WebcamKey(facing, 0), "live")
  /\ streamLive' = (webcam' = "live")
  /\ processedLive' = EffectCreates("stream", mode)
  /\ RunEffect(FALSE, EffectCreates("stream", mode))
  /\ chunks' = ChunksAfterEffect(mediaRecorderRef, chunks, "stream", mode, recorderSupported)
  /\ lastVideo' = CapturedAfterStop(mediaRecorderRef, chunks)
  /\ stoppedByHide' = NothingStopped
  /\ recorderMisused' = StopMisused(mediaRecorderRef)
  /\ last' = "handleUserMedia"
  /\ UNCHANGED otherThanPreview
  /\ UNCHANGED <<facing, mode, previewStatic, visibility, retryTimers,
                 initTimeoutPending, doneTimers, visTimers>>

\* lines 403-427: the Webcam reports an acquisition failure
handleUserMediaError ==
  /\ webcam = "requesting"
  /\ isInitializing' = FALSE
  /\ isReady' = FALSE
  /\ mediaStream' = NULL
  /\ mediaRecorderRef' = RecorderAfterEffect(mediaRecorderRef, NULL, mode, recorderSupported)
  /\ isRecording' = IF mediaRecorderRef = "recording" THEN FALSE ELSE isRecording
  /\ IF CanRetry(retryCount)
       THEN /\ initTimeoutPending => retryTimers < MaxRetryTimers
            /\ retryCount' = retryCount + 1
            /\ autoAttempts' = autoAttempts + 1
            /\ retryTimers' = IF initTimeoutPending THEN retryTimers + 1 ELSE retryTimers
            /\ initTimeoutPending' = TRUE
            /\ webcam' = Remount(WebcamKey(facing, retryCount),
                                 WebcamKey(facing, retryCount + 1), "failed")
            /\ error' = error
       ELSE /\ error' = ErrInit
            /\ webcam' = "failed"
            /\ UNCHANGED <<retryCount, autoAttempts, retryTimers, initTimeoutPending>>
  /\ IF mediaStream # NULL
       THEN processedLive' = FALSE /\ RunEffect(FALSE, FALSE)
       ELSE UNCHANGED <<processedLive, loopVars>>
  /\ chunks' = ChunksAfterStop(mediaRecorderRef, chunks)
  /\ lastVideo' = CapturedAfterStop(mediaRecorderRef, chunks)
  /\ stoppedByHide' = NothingStopped
  /\ recorderMisused' = StopMisused(mediaRecorderRef)
  /\ last' = "handleUserMediaError"
  /\ UNCHANGED otherThanPreview
  /\ UNCHANGED <<facing, mode, previewStatic, visibility, doneTimers, visTimers,
                 streamLive>>

\* lines 417-420: a retry timer fires (the one initTimeoutRef holds, or an
\* earlier one that was never cleared)
RetryTimerFire ==
  /\ \/ /\ initTimeoutPending
        /\ initTimeoutPending' = FALSE
        /\ retryTimers' = retryTimers
     \/ /\ retryTimers > 0
        /\ retryTimers' = retryTimers - 1
        /\ initTimeoutPending' = initTimeoutPending
  /\ error' = NULL
  /\ isInitializing' = TRUE
  /\ stoppedByHide' = NothingStopped
  /\ lastVideo' = NoChunks
  /\ recorderMisused' = FALSE
  /\ last' = "RetryTimerFire"
  /\ UNCHANGED otherThanPreview
  /\ UNCHANGED <<isReady, mediaStream, isRecording, retryCount, facing, mode,
                 previewStatic, webcam, mediaRecorderRef, visibility,
                 doneTimers, visTimers, autoAttempts>>
  /\ UNCHANGED <<streamLive, processedLive, loopVars, chunks>>

\* lines 332-334 and 567-569: a timer of the reset effect or of
\* handlePWARetry fires
DoneTimerFire ==
  /\ doneTimers > 0
  /\ doneTimers' = doneTimers - 1
  /\ isInitializing' = FALSE
  /\ stoppedByHide' = NothingStopped
  /\ lastVideo' = NoChunks
  /\ recorderMisused' = FALSE
  /\ last' = "DoneTimerFire"
  /\ UNCHANGED otherThanPreview
  /\ UNCHANGED <<isReady, error, mediaStream, isRecording, retryCount, facing,
                 mode, previewStatic, webcam, mediaRecorderRef, visibility,
                 retryTimers, initTimeoutPending, visTimers, autoAttempts>>
  /\ UNCHANGED <<streamLive, processedLive, loopVars, chunks>>

\* lines 431-473: the page becomes hidden or visible.  The hidden branch
\* stops the tracks of the stream in state and of processedStreamRef and a
\* recording recorder; setMediaStream(null) then runs the effect's cleanup.
handleVisibilityChange ==
  /\ visibility' = IF visibility = "visible" THEN "hidden" ELSE "visible"
  /\ IF visibility' = "hidden"
       THEN /\ mediaRecorderRef' = StopIfRecording(mediaRecorderRef)
            /\ isReady' = FALSE
            /\ mediaStream' = NULL
            /\ isRecording' = FALSE
            /\ visTimers' = visTimers
            /\ stoppedByHide' = [stream |-> mediaStream # NULL /\ streamLive,
                                 processed |-> processedLive,
                                 recorder |-> mediaRecorderRef = "recording"]
            /\ streamLive' = IF mediaStream # NULL THEN StopTracks(streamLive)
                             ELSE streamLive
            /\ IF mediaStream # NULL
                 THEN processedLive' = FALSE /\ RunEffect(streamLive', FALSE)
                 ELSE processedLive' = StopTracks(processedLive) /\ UNCHANGED loopVars
            /\ chunks' = ChunksAfterStop(mediaRecorderRef, chunks)
            /\ lastVideo' = CapturedAfterStop(mediaRecorderRef, chunks)
       ELSE /\ IF ~isReady /\ error = NULL
                 THEN visTimers < MaxVisTimers /\ visTimers' = visTimers + 1
                 ELSE visTimers' = visTimers
            /\ stoppedByHide' = NothingStopped
            /\ lastVideo' = NoChunks
            /\ UNCHANGED <<mediaRecorderRef, isReady, mediaStream, isRecording,
                           streamLive, processedLive, loopVars, chunks>>
  /\ recorderMisused' = (visibility' = "hidden" /\ StopMisused(mediaRecorderRef))
  /\ last' = "handleVisibilityChange"
  /\ UNCHANGED otherThanPreview
  /\ UNCHANGED <<error, retryCount, isInitializing, facing, mode, previewStatic,
                 webcam, retryTimers, initTimeoutPending, doneTimers, autoAttempts>>

\* lines 464-471: the 200 ms timer of the visible branch fires; the key
\* changes, and a Webcam that is unmounted stops its stream
VisTimerFire ==
  /\ visTimers > 0
  /\ retryCount < MaxRetryCount
  /\ visTimers' = visTimers - 1
  /\ error' = NULL
  /\ isInitializing' = TRUE
  /\ retryCount' = retryCount + 1
  /\ webcam' = Remount(WebcamKey(facing, retryCount),
                       WebcamKey(facing, retryCount + 1), webcam)
  /\ streamLive' = FALSE
  /\ staleLoading' = 0
  /\ stoppedByHide' = NothingStopped
  /\ lastVideo' = NoChunks
  /\ recorderMisused' = FALSE
  /\ last' = "VisTimerFire"
  /\ UNCHANGED otherThanPreview
  /\ UNCHANGED <<isReady, mediaStream, isRecording, facing, mode, previewStatic,
                 mediaRecorderRef, visibility, retryTimers, initTimeoutPending,
                 doneTimers, autoAttempts>>
  /\ UNCHANGED <<processedLive, canvasVideo, animationFrameRef,
                 staleLoops, chunks>>

\* lines 555-570 (button at 621-626, PWA mode): 'Retry Camera'
handlePWARetry ==
  /\ error # NULL
  /\ isPWA
  /\ doneTimers < MaxDoneTimers
  /\ error' = NULL
  /\ isReady' = FALSE
  /\ retryCount' = 0
  /\ autoAttempts' = 0
  /\ isInitializing' = TRUE
  /\ initTimeoutPending' = FALSE
  /\ doneTimers' = doneTimers + 1
  /\ webcam' = Remount(WebcamKey(facing, retryCount), WebcamKey(facing, 0), webcam)
  /\ streamLive' = IF webcam' = "requesting" THEN FALSE ELSE streamLive
  /\ staleLoading' = IF streamLive' THEN staleLoading ELSE 0
  /\ stoppedByHide' = NothingStopped
  /\ lastVideo' = NoChunks
  /\ recorderMisused' = FALSE
  /\ last' = "handlePWARetry"
  /\ UNCHANGED otherThanPreview
  /\ UNCHANGED <<mediaStream, isRecording, facing, mode, previewStatic,
                 mediaRecorderRef, visibility, retryTimers, visTimers>>
  /\ UNCHANGED <<processedLive, canvasVideo, animationFrameRef,
                 staleLoops, chunks>>

\* line 622 (not PWA): 'Try Again' reloads the page; the component is
\* built anew and every timer, loop and recorder of the old page is gone
Reload ==
  /\ error # NULL
  /\ ~isPWA
  /\ isReady' = FALSE
  /\ error' = NULL
  /\ mediaStream' = NULL
  /\ isRecording' = FALSE
  /\ retryCount' = 0
  /\ isInitializing' = TRUE
  /\ facing' = "environment"
  /\ webcam' = "requesting"
  /\ mediaRecorderRef' = NULL
  /\ visibility' = "visible"
  /\ retryTimers' = 0
  /\ initTimeoutPending' = FALSE
  /\ doneTimers' = 1
  /\ visTimers' = 0
  /\ autoAttempts' = 0
  /\ streamLive' = FALSE
  /\ processedLive' = FALSE
  /\ stoppedByHide' = NothingStopped
  /\ canvasVideo' = "none"
  /\ animationFrameRef' = "none"
  /\ staleLoading' = 0
  /\ staleLoops' = 0
  /\ chunks' = NoChunks
  /\ lastVideo' = NoChunks
  /\ recorderMisused' = FALSE
  /\ last' = "Reload"
  /\ UNCHANGED otherThanPreview
  /\ UNCHANGED <<mode, previewStatic>>

\* lines 311-335: facing (mobile switch button, 816-823) or selectedDeviceId
\* (desktop select, 640-643) changes; both controls are disabled while
\* recording.  The Webcam key changes (the old Webcam stops its stream), the
\* effect on [..., createProcessingCanvas] runs again and so does the reset
\* effect, whose setMediaStream(null) runs the former's cleanup once more.
onFacingChange ==
  /\ ~isRecording
  /\ doneTimers < MaxDoneTimers
  /\ facing' = IF facing = "user" THEN "environment" ELSE "user"
  /\ isInitializing' = TRUE
  /\ isReady' = FALSE
  /\ error' = NULL
  /\ mediaStream' = NULL
  /\ isRecording' = FALSE
  /\ retryCount' = 0
  /\ autoAttempts' = 0
  /\ mediaRecorderRef' = NULL
  /\ doneTimers' = doneTimers + 1
  /\ webcam' = Remount(WebcamKey(facing, retryCount), WebcamKey(facing', 0), webcam)
  /\ streamLive' = FALSE
  /\ processedLive' = FALSE
  /\ RunEffect(FALSE, FALSE)
  /\ chunks' = NoChunks
  /\ lastVideo' = CapturedAfterStop(mediaRecorderRef, chunks)
  /\ stoppedByHide' = NothingStopped
  /\ recorderMisused' = StopMisused(mediaRecorderRef)
  /\ last' = "onFacingChange"
  /\ UNCHANGED otherThanPreview
  /\ UNCHANGED <<mode, previewStatic, visibility, retryTimers,
                 initTimeoutPending, visTimers>>

\* lines 684-705 (desktop, disabled while recording) and 793-808 (mobile):
\* the mode buttons; the effect on [mediaStream, mode] runs again
onModeChange ==
  /\ isMobile \/ ~isRecording
  /\ mode' = IF mode = "photo" THEN "video" ELSE "photo"
  /\ mediaRecorderRef' = RecorderAfterEffect(mediaRecorderRef, mediaStream, mode', recorderSupported)
  /\ error' = ErrorAfterEffect(error, mediaStream, mode', recorderSupported)
  /\ isRecording' = IF mediaRecorderRef = "recording" THEN FALSE ELSE isRecording
  /\ processedLive' = EffectCreates(mediaStream, mode')
  /\ RunEffect(streamLive, EffectCreates(mediaStream, mode'))
  /\ chunks' = ChunksAfterEffect(mediaRecorderRef, chunks, mediaStream, mode', recorderSupported)
  /\ lastVideo' = CapturedAfterStop(mediaRecorderRef, chunks)
  /\ stoppedByHide' = NothingStopped
  /\ recorderMisused' = StopMisused(mediaRecorderRef)
  /\ last' = "onModeChange"
  /\ UNCHANGED otherThanPreview
  /\ UNCHANGED <<isReady, mediaStream, retryCount, isInitializing, facing,
                 previewStatic, webcam, visibility, retryTimers,
                 initTimeoutPending, doneTimers, visTimers, autoAttempts,
                 streamLive>>

\* lines 337-348 (button at 743-745): start() succeeds or throws.  What the
\* chunks array holds when start() is called comes from earlier recordings.
startRecording ==
  /\ isReady /\ mode = "video" /\ ~isRecording
  /\ IF StartGuard(mediaRecorderRef)
       THEN \/ /\ mediaRecorderRef' = "recording"
               /\ isRecording' = TRUE
               /\ error' = error
               /\ chunks' = [earlier |-> Min(chunks.earlier + chunks.own, MaxEarlierChunks),
                             own |-> 0]
            \/ /\ error' = ErrStart
               /\ UNCHANGED <<mediaRecorderRef, isRecording, chunks>>
       ELSE UNCHANGED <<mediaRecorderRef, isRecording, error, chunks>>
  /\ stoppedByHide' = NothingStopped
  /\ lastVideo' = NoChunks
  /\ recorderMisused' = StartMisused(mediaRecorderRef)
  /\ last' = "startRecording"
  /\ UNCHANGED otherThanPreview
  /\ UNCHANGED <<isReady, mediaStream, retryCount, isInitializing, facing, mode,
                 previewStatic, webcam, visibility, retryTimers,
                 initTimeoutPending, doneTimers, visTimers, autoAttempts>>
  /\ UNCHANGED <<streamLive, processedLive, loopVars>>

\* lines 350-361 and the recorder's onstop, 274-280
stopRecording ==
  /\ isReady /\ mode = "video" /\ isRecording
  /\ IF mediaRecorderRef = "recording"
       THEN mediaRecorderRef' = "inactive" /\ isRecording' = FALSE
       ELSE UNCHANGED <<mediaRecorderRef, isRecording>>
  /\ chunks' = ChunksAfterStop(mediaRecorderRef, chunks)
  /\ lastVideo' = CapturedAfterStop(mediaRecorderRef, chunks)
  /\ stoppedByHide' = NothingStopped
  /\ recorderMisused' = StopMisused(mediaRecorderRef)
  /\ last' = "stopRecording"
  /\ UNCHANGED otherThanPreview
  /\ UNCHANGED <<isReady, error, mediaStream, retryCount, isInitializing, facing,
                 mode, previewStatic, webcam, visibility, retryTimers,
                 initTimeoutPending, doneTimers, visTimers, autoAttempts>>
  /\ UNCHANGED <<streamLive, processedLive, loopVars>>

\* lines 282-287: the recorder reports an error while recording; a
\* MediaRecorder that fails delivers its data and the stop event as well
mediaRecorderOnError ==
  /\ mediaRecorderRef = "recording"
  /\ mediaRecorderRef' = "inactive"
  /\ error' = ErrRecFailed
  /\ isRecording' = FALSE
  /\ chunks' = VideoOnStop(chunks)
  /\ lastVideo' = VideoOnStop(chunks)
  /\ stoppedByHide' = NothingStopped
  /\ recorderMisused' = FALSE
  /\ last' = "mediaRecorderOnError"
  /\ UNCHANGED otherThanPreview
  /\ UNCHANGED <<isReady, mediaStream, retryCount, isInitializing, facing, mode,
                 previewStatic, webcam, visibility, retryTimers,
                 initTimeoutPending, doneTimers, visTimers, autoAttempts>>
  /\ UNCHANGED <<streamLive, processedLive, loopVars>>

previewState == <<isReady, error, mediaStream, isRecording, retryCount,
                  isInitializing, facing, mode, previewStatic, webcam,
                  mediaRecorderRef, visibility, retryTimers, initTimeoutPending,
                  doneTimers, visTimers, autoAttempts>>

\* lines 184-241: the hidden video of the current canvas loads its metadata;
\* processFrame is called and requests the first animation frame
MetadataLoaded ==
  /\ canvasVideo = "loading"
  /\ streamLive
  /\ canvasVideo' = "looping"
  /\ animationFrameRef' = "current"
  /\ stoppedByHide' = NothingStopped
  /\ lastVideo' = NoChunks
  /\ recorderMisused' = FALSE
  /\ last' = "MetadataLoaded"
  /\ UNCHANGED otherThanPreview
  /\ UNCHANGED <<previewState, streamLive, processedLive,
                 staleLoading, staleLoops, chunks>>

\* lines 184-241: the same for the hidden video of a canvas whose effect
\* run has already been cleaned up
StaleMetadataLoaded ==
  /\ staleLoading > 0
  /\ staleLoops < MaxStaleLoops
  /\ staleLoading' = staleLoading - 1
  /\ staleLoops' = staleLoops + 1
  /\ animationFrameRef' = "stale"
  /\ stoppedByHide' = NothingStopped
  /\ lastVideo' = NoChunks
  /\ recorderMisused' = FALSE
  /\ last' = "StaleMetadataLoaded"
  /\ UNCHANGED otherThanPreview
  /\ UNCHANGED <<previewState, streamLive, processedLive,
                 canvasVideo, chunks>>

\* lines 205-237: an animation frame of the current canvas's loop:
\* processFrame draws and requests the next frame
AnimationFrame ==
  /\ canvasVideo = "looping"
  /\ animationFrameRef' = "current"
  /\ stoppedByHide' = NothingStopped
  /\ lastVideo' = NoChunks
  /\ recorderMisused' = FALSE
  /\ last' = "AnimationFrame"
  /\ UNCHANGED otherThanPreview
  /\ UNCHANGED <<previewState, streamLive, processedLive,
                 canvasVideo, staleLoading, staleLoops, chunks>>

\* lines 205-237: an animation frame of the loop of an earlier canvas
StaleAnimationFrame ==
  /\ staleLoops > 0
  /\ animationFrameRef' = "stale"
  /\ stoppedByHide' = NothingStopped
  /\ lastVideo' = NoChunks
  /\ recorderMisused' = FALSE
  /\ last' = "StaleAnimationFrame"
  /\ UNCHANGED otherThanPreview
  /\ UNCHANGED <<previewState, streamLive, processedLive,
                 canvasVideo, staleLoading, staleLoops, chunks>>

\* lines 267-271: a chunk of the running recording (start(1000), line 340)
mediaRecorderOnDataAvailable ==
  /\ mediaRecorderRef = "recording"
  /\ chunks.own < MaxChunks
  /\ chunks' = [chunks EXCEPT !.own = @ + 1]
  /\ stoppedByHide' = NothingStopped
  /\ lastVideo' = NoChunks
  /\ recorderMisused' = FALSE
  /\ last' = "mediaRecorderOnDataAvailable"
  /\ UNCHANGED otherThanPreview
  /\ UNCHANGED <<previewState, streamLive, processedLive,
                 loopVars>>

\* lines 474-498: pagehide (the page may come back from the back/forward
\* cache): the tracks of the stream in state and of processedStreamRef are
\* stopped, a recording recorder is stopped (its onstop handler, 274-280,
\* passes the video on and clears isRecording) and the frame request the
\* ref holds is cancelled; no state is set
handlePageHide ==
  /\ streamLive' = IF mediaStream # NULL THEN StopTracks(streamLive) ELSE streamLive
  /\ processedLive' = StopTracks(processedLive)
  /\ mediaRecorderRef' = StopIfRecording(mediaRecorderRef)
  /\ isRecording' = IF mediaRecorderRef = "recording" THEN FALSE ELSE isRecording
  /\ chunks' = ChunksAfterStop(mediaRecorderRef, chunks)
  /\ lastVideo' = CapturedAfterStop(mediaRecorderRef, chunks)
  /\ animationFrameRef' = IF animationFrameRef \in {"current", "stale"}
                            THEN "cancelled" ELSE animationFrameRef
  /\ canvasVideo' = IF animationFrameRef = "current" THEN "none" ELSE canvasVideo
  /\ staleLoops' = IF animationFrameRef = "stale" THEN staleLoops - 1 ELSE staleLoops
  /\ stoppedByHide' = NothingStopped
  /\ recorderMisused' = StopMisused(mediaRecorderRef)
  /\ last' = "handlePageHide"
  /\ UNCHANGED otherThanPreview
  /\ UNCHANGED <<isReady, error, mediaStream, retryCount, isInitializing, facing,
                 mode, previewStatic, webcam, visibility, retryTimers,
                 initTimeoutPending, doneTimers, visTimers, autoAttempts,
                 staleLoading>>

PreviewNext ==
  \/ handleUserMedia
  \/ handleUserMediaError
  \/ RetryTimerFire
  \/ DoneTimerFire
  \/ handleVisibilityChange
  \/ VisTimerFire
  \/ handlePWARetry
  \/ Reload
  \/ onFacingChange
  \/ onModeChange
  \/ startRecording
  \/ stopRecording
  \/ mediaRecorderOnError

\* the component with a camera that is acquired at every request, together
\* with the events of the processing canvas and of the MediaRecorder
PreviewMediaNext ==
  \/ handleUserMedia
  \/ DoneTimerFire
  \/ handleVisibilityChange
  \/ VisTimerFire
  \/ onFacingChange
  \/ onModeChange
  \/ startRecording
  \/ stopRecording
  \/ mediaRecorderOnError
  \/ MetadataLoaded
  \/ StaleMetadataLoaded
  \/ AnimationFrame
  \/ StaleAnimationFrame
  \/ mediaRecorderOnDataAvailable
  \/ handlePageHide


\* =====================================================================
\* hooks/useCameraKitDirect.ts (with the CameraKitPreview that uses it)
\* =====================================================================
ErrKit == "Failed to initialize CameraKit"

\* a reference (useRef) that holds null; objects are numbered from 1
NoRef == 0

\* lines 12-17: the initial state of the hook
InitialState == [isInitialized |-> FALSE, isRecording |-> FALSE,
                 error |-> NULL, currentCamera |-> "BACK"]

\* the asynchronous invocations (initialize, switchCamera) that are awaiting
\* a promise, in the order they were started: kind, the await they are at,
\* the side setCameraSide was called with and the stream it has acquired
ProcAt(k, p, s) == [kind |-> k, pc |-> p, side |-> s, stream |-> 0]
Put(i, rec) == IF i > Len(procs) THEN Append(procs, rec) ELSE [procs EXCEPT ![i] = rec]
Drop(i) == [j \in 1..(Len(procs) - 1) |-> IF j < i THEN procs[j] ELSE procs[j + 1]]
Done(i) == IF i > Len(procs) THEN procs ELSE Drop(i)
InSetCameraSide == {i \in 1..Len(procs) : procs[i].pc \in {"getUserMedia", "setSource"}}

\* CameraKitPreview lines 153-190: the canvas is rendered only when
\* state.error is null, so canvasRef.current is null on the error screen
CanvasMounted == dState.error = NULL

\* line 32: initialize is memoized on [canvasRef] only (line 120), so the
\* state.isInitialized it reads is the one of the first render
ClosureIsInitialized == FALSE
AlreadyInitialized == ClosureIsInitialized \/ cameraKitRef # NoRef

\* lines 138 and 144: the facing mode requested for a side
FacingModeOf(side) == IF side = "BACK" THEN "environment" ELSE "user"

\* line 181: the side switchCamera asks for
OtherSideMut(side) == side
OtherSide(side) == IF side = "BACK" THEN "FRONT" ELSE "BACK"

\* track.stop() on the video track only (line 131) or on every track (line 213)
StopVideoTrack(ss, id) == [ss EXCEPT ![id].video = FALSE]
StopAllTracks(ss, id) == [ss EXCEPT ![id].video = FALSE, ![id].audio = FALSE]

LiveStreams == {id \in 1..Len(streams) : streams[id].video \/ streams[id].audio}

DirectInit ==
  /\ dState = InitialState
  /\ cameraKitRef = NoRef
  /\ sessionRef = NoRef
  /\ mediaStreamRef = NoRef
  /\ mediaStreamSourceRef = NoRef
  /\ lensRef = NULL
  /\ envConfigured \in BOOLEAN
  /\ kits = 0
  /\ sessions = <<>>
  /\ streams = <<>>
  /\ procs = <<>>
  /\ midFlightCleanup = FALSE
  /\ switchCount = 0
  /\ seqClean = TRUE
  /\ thrown = "none"

\* lines 174-177: the catch block of setCameraSide logs and rethrows; it
\* leaves the state as it is
SwitchFailedMut(st) == [st EXCEPT !.currentCamera = OtherSide(@)]
SwitchFailed(st) == st

\* lines 98-119 (initialize) and 174-177 (setCameraSide called by
\* switchCamera): invocation i ends by throwing.  initialize records the
\* error in state before rethrowing; setCameraSide only rethrows.
Fail(i) ==
  /\ procs' = Done(i)
  /\ dState' = IF procs[i].kind = "init"
                 THEN [dState EXCEPT !.error = ErrKit, !.isInitialized = FALSE]
                 ELSE SwitchFailed(dState)
  /\ thrown' = procs[i].kind

\* lines 123-132: setCameraSide up to its first await, run by invocation i
\* (kind k) for side s, with sref the value of sessionRef.current and sess
\* the sessions at that moment.  Without a session or a kit it returns at
\* once (initialize then goes on to load the lens).
SetCameraSideStart(i, k, s, sref, sess) ==
  IF sref = NoRef \/ cameraKitRef = NoRef
    THEN /\ procs' = IF k = "init" THEN Put(i, ProcAt(k, "loadLens", s)) ELSE Done(i)
         /\ sessions' = sess
         /\ UNCHANGED <<streams, seqClean>>
    ELSE /\ procs' = Put(i, ProcAt(k, "getUserMedia", s))
         /\ seqClean' = (seqClean /\ InSetCameraSide \ {i} = {})
         /\ IF mediaStreamRef # NoRef
              THEN /\ sessions' = [sess EXCEPT ![sref] = "paused"]
                   /\ streams' = StopVideoTrack(streams, mediaStreamRef)
              ELSE /\ sessions' = sess
                   /\ streams' = streams

\* lines 26-61: initialize up to its first await
InitializeCall ==
  IF ~CanvasMounted
    THEN UNCHANGED directCore /\ thrown' = "init" \* throws 'Canvas ref not available'
    ELSE IF AlreadyInitialized
      THEN UNCHANGED directCore /\ thrown' = "none" \* 'already initialized, skipping'
      ELSE IF ~envConfigured
        THEN /\ dState' = [dState EXCEPT !.error = ErrKit, !.isInitialized = FALSE]
             /\ thrown' = "init"
             /\ UNCHANGED <<cameraKitRef, sessionRef, mediaStreamRef, mediaStreamSourceRef,
                            lensRef, envConfigured, kits, sessions, streams, procs,
                            midFlightCleanup, switchCount, seqClean>>
        ELSE /\ Len(procs) < MaxProcs
             /\ procs' = Put(Len(procs) + 1, ProcAt("init", "bootstrap", "BACK"))
             /\ midFlightCleanup' = FALSE
             /\ thrown' = "none"
             /\ UNCHANGED <<dState, cameraKitRef, sessionRef, mediaStreamRef,
                            mediaStreamSourceRef, lensRef, envConfigured, kits, sessions,
                            streams, switchCount, seqClean>>

\* the hook's initialize action, called by the mount effect of the preview
\* (CameraKitPreview lines 59-86) or by any other user of the hook
D_initialize ==
  /\ InitializeCall
  /\ last' = "D_initialize"
  /\ UNCHANGED otherThanDirect

\* CameraKitPreview lines 153-170: the Retry button of the error screen
RetryClick ==
  /\ dState.error # NULL
  /\ InitializeCall
  /\ last' = "RetryClick"
  /\ UNCHANGED otherThanDirect

\* lines 58-78: bootstrapCameraKit settles
BootstrapSettled(i) ==
  /\ procs[i].pc = "bootstrap"
  /\ \E ok \in BOOLEAN :
       IF ok /\ kits < MaxKits
         THEN /\ kits' = kits + 1
              /\ cameraKitRef' = kits + 1
              /\ IF CanvasMounted
                   THEN /\ procs' = [procs EXCEPT ![i].pc = "createSession"]
                        /\ dState' = dState
                        /\ thrown' = "none"
                   ELSE Fail(i)                  \* canvas.parentElement on null
         ELSE /\ ~ok
              /\ Fail(i)
              /\ UNCHANGED <<kits, cameraKitRef>>
  /\ last' = "BootstrapSettled"
  /\ UNCHANGED <<sessionRef, mediaStreamRef, mediaStreamSourceRef, lensRef,
                 envConfigured, sessions, streams, midFlightCleanup, switchCount, seqClean>>
  /\ UNCHANGED otherThanDirect

\* lines 78-84: createSession settles; on success setCameraSide('BACK')
\* starts within the same continuation
CreateSessionSettled(i) ==
  /\ procs[i].pc = "createSession"
  /\ \E ok \in BOOLEAN :
       IF ok /\ Len(sessions) < MaxSessions
         THEN /\ sessionRef' = Len(sessions) + 1
              /\ SetCameraSideStart(i, "init", "BACK", Len(sessions) + 1,
                                    Append(sessions, "paused"))
              /\ dState' = dState
              /\ thrown' = "none"
         ELSE /\ ~ok
              /\ Fail(i)
              /\ UNCHANGED <<sessionRef, sessions, streams, seqClean>>
  /\ last' = "CreateSessionSettled"
  /\ UNCHANGED <<cameraKitRef, mediaStreamRef, mediaStreamSourceRef, lensRef,
                 envConfigured, kits, midFlightCleanup, switchCount>>
  /\ UNCHANGED otherThanDirect

\* lines 135-148: getUserMedia settles; on success the new stream has a live
\* video and a live audio track, and setSource is called on sessionRef.current
\* (a TypeError when cleanup has cleared it in the meantime)
GetUserMediaSettled(i) ==
  /\ procs[i].pc = "getUserMedia"
  /\ \E ok \in BOOLEAN :
       IF ok /\ Len(streams) < MaxStreams
         THEN /\ streams' = Append(streams, [video |-> TRUE, audio |-> TRUE,
                                             facing |-> FacingModeOf(procs[i].side)])
              /\ IF sessionRef # NoRef
                   THEN /\ procs' = [procs EXCEPT ![i].pc = "setSource",
                                                  ![i].stream = Len(streams) + 1]
                        /\ dState' = dState
                        /\ thrown' = "none"
                   ELSE Fail(i)
         ELSE /\ ~ok
              /\ Fail(i)
              /\ streams' = streams
  /\ last' = "GetUserMediaSettled"
  /\ UNCHANGED <<cameraKitRef, sessionRef, mediaStreamRef, mediaStreamSourceRef,
                 lensRef, envConfigured, kits, sessions, midFlightCleanup,
                 switchCount, seqClean>>
  /\ UNCHANGED otherThanDirect

\* lines 148-172: setSource settles; on success the session plays, the
\* references are stored and currentCamera becomes the requested side
SetSourceSettled(i) ==
  /\ procs[i].pc = "setSource"
  /\ \E ok \in BOOLEAN :
       IF ok /\ sessionRef # NoRef
         THEN /\ sessions' = [sessions EXCEPT ![sessionRef] = "playing"]
              /\ mediaStreamRef' = procs[i].stream
              /\ mediaStreamSourceRef' = procs[i].stream
              /\ dState' = [dState EXCEPT !.currentCamera = procs[i].side]
              /\ procs' = IF procs[i].kind = "init"
                            THEN [procs EXCEPT ![i].pc = "loadLens"]
                            ELSE Done(i)
              /\ switchCount' = IF procs[i].kind = "init" THEN 0 ELSE switchCount + 1
              /\ thrown' = "none"
         ELSE /\ Fail(i)                         \* rejection, or play() on null
              /\ UNCHANGED <<sessions, mediaStreamRef, mediaStreamSourceRef, switchCount>>
  /\ last' = "SetSourceSettled"
  /\ UNCHANGED <<cameraKitRef, sessionRef, lensRef, envConfigured, kits, streams,
                 midFlightCleanup, seqClean>>
  /\ UNCHANGED otherThanDirect

\* line 87: loadLens settles
LoadLensSettled(i) ==
  /\ procs[i].pc = "loadLens"
  /\ \E ok \in BOOLEAN :
       IF ok THEN /\ procs' = [procs EXCEPT ![i].pc = "applyLens"]
                  /\ dState' = dState
                  /\ thrown' = "none"
             ELSE Fail(i)
  /\ last' = "LoadLensSettled"
  /\ UNCHANGED <<cameraKitRef, sessionRef, mediaStreamRef, mediaStreamSourceRef,
                 lensRef, envConfigured, kits, sessions, streams, midFlightCleanup,
                 switchCount, seqClean>>
  /\ UNCHANGED otherThanDirect

\* lines 88-97: applyLens settles; on success the hook is initialized
ApplyLensSettled(i) ==
  /\ procs[i].pc = "applyLens"
  /\ \E ok \in BOOLEAN :
       IF ok THEN /\ lensRef' = "lens"
                  /\ dState' = [dState EXCEPT !.isInitialized = TRUE, !.error = NULL]
                  /\ procs' = Done(i)
                  /\ thrown' = "none"
             ELSE /\ Fail(i)
                  /\ lensRef' = lensRef
  /\ last' = "ApplyLensSettled"
  /\ UNCHANGED <<cameraKitRef, sessionRef, mediaStreamRef, mediaStreamSourceRef,
                 envConfigured, kits, sessions, streams, midFlightCleanup,
                 switchCount, seqClean>>
  /\ UNCHANGED otherThanDirect

\* lines 180-183: switchCamera calls setCameraSide with the other side
switchCamera ==
  /\ Len(procs) < MaxProcs
  /\ SetCameraSideStart(Len(procs) + 1, "switch", OtherSide(dState.currentCamera),
                        sessionRef, sessions)
  /\ midFlightCleanup' = FALSE
  /\ thrown' = "none"
  /\ last' = "switchCamera"
  /\ UNCHANGED <<dState, cameraKitRef, sessionRef, mediaStreamRef,
                 mediaStreamSourceRef, lensRef, envConfigured, kits, switchCount>>
  /\ UNCHANGED otherThanDirect

\* lines 185-187
D_startRecording ==
  /\ dState' = [dState EXCEPT !.isRecording = TRUE]
  /\ thrown' = "none"
  /\ last' = "D_startRecording"
  /\ UNCHANGED <<cameraKitRef, sessionRef, mediaStreamRef, mediaStreamSourceRef,
                 lensRef, envConfigured, kits, sessions, streams, procs,
                 midFlightCleanup, switchCount, seqClean>>
  /\ UNCHANGED otherThanDirect

\* lines 189-191
D_stopRecording ==
  /\ dState' = [dState EXCEPT !.isRecording = FALSE]
  /\ thrown' = "none"
  /\ last' = "D_stopRecording"
  /\ UNCHANGED <<cameraKitRef, sessionRef, mediaStreamRef, mediaStreamSourceRef,
                 lensRef, envConfigured, kits, sessions, streams, procs,
                 midFlightCleanup, switchCount, seqClean>>
  /\ UNCHANGED otherThanDirect

\* lines 203-232: cleanup (also run by the unmount of the preview,
\* CameraKitPreview lines 88-96)
cleanup ==
  /\ IF cameraKitRef = NoRef /\ sessionRef = NoRef
       THEN UNCHANGED <<dState, cameraKitRef, sessionRef, mediaStreamRef,
                        mediaStreamSourceRef, lensRef, sessions, streams,
                        switchCount, seqClean>>
       ELSE /\ streams' = IF mediaStreamRef # NoRef
                            THEN StopAllTracks(streams, mediaStreamRef)
                            ELSE streams
            /\ mediaStreamRef' = NoRef
            /\ sessions' = IF sessionRef # NoRef
                             THEN [sessions EXCEPT ![sessionRef] = "paused"]
                             ELSE sessions
            /\ sessionRef' = NoRef
            /\ cameraKitRef' = NoRef
            /\ mediaStreamSourceRef' = NoRef
            /\ lensRef' = NULL
            /\ dState' = InitialState
            /\ switchCount' = 0
            /\ seqClean' = (InSetCameraSide = {})
  /\ midFlightCleanup' = (procs # <<>>)
  /\ thrown' = "none"
  /\ last' = "cleanup"
  /\ UNCHANGED <<envConfigured, kits, procs>>
  /\ UNCHANGED otherThanDirect

DirectNext ==
  \/ D_initialize
  \/ RetryClick
  \/ \E i \in 1..Len(procs) : BootstrapSettled(i)
  \/ \E i \in 1..Len(procs) : CreateSessionSettled(i)
  \/ \E i \in 1..Len(procs) : GetUserMediaSettled(i)
  \/ \E i \in 1..Len(procs) : SetSourceSettled(i)
  \/ \E i \in 1..Len(procs) : LoadLensSettled(i)
  \/ \E i \in 1..Len(procs) : ApplyLensSettled(i)
  \/ switchCamera
  \/ D_startRecording
  \/ D_stopRecording
  \/ cleanup


\* =====================================================================
\* hooks/useCameraKit.ts (recording) and utils/CanvasRecorder.ts
\* =====================================================================
\* useCameraKit.ts lines 328-334 and 390-396: the catch blocks put the message
\* of the exception in state.error; the strings stand for the message of an
\* exception of setupRecorder and of one of stopRecording
ErrSetup == "Failed to create recorder"
ErrStop == "Failed to stop recording"

\* useCameraKit.ts line 356: the delay before the recorder is started, and
\* line 378: the press duration below which a press is a click
StartDelayMs == 300
ClickThresholdMs == 300

Max(a, b) == IF a > b THEN a ELSE b

\* line 378: isClickEvent, for a press that started ageMs ago
IsClickEvent(ageMs) == ageMs < ClickThresholdMs

\* Time is kept relative: startTimestampAge is Date.now() minus
\* startTimestampRef.current, saturated at ClickThresholdMs (all the code
\* asks is whether it is below it); a timer holds the time left to its due
\* time.  startTimestampRef starts at 0 (line 67), long ago.
KitInit ==
  /\ kState = [canvasRecorder |-> NoRef, recordButtonReleased |-> FALSE,
               isRecording |-> FALSE, error |-> NULL]
  /\ startTimestampAge = ClickThresholdMs
  /\ held = FALSE
  /\ startTimers = {}
  /\ recorders = <<>>
  /\ orphans = 0
  /\ lastSaved = "none"
  /\ lastStartCalled = FALSE
  /\ recordedBlobs = <<>>
  /\ pendingData = <<>>
  /\ savedVideo = [chunks |-> 0, notYetAppended |-> 0]

\* CanvasRecorder.ts lines 18-75 and useCameraKit.ts lines 301-335:
\* setupRecorder builds a new CanvasRecorder (mediaRecorder null) and puts
\* it in state, or the construction throws and the error is put in state
SetupRecorderResult(ok) ==
  IF ok
    THEN [st |-> [kState EXCEPT !.canvasRecorder = Len(recorders) + 1],
          recs |-> Append(recorders, "none")]
    ELSE [st |-> [kState EXCEPT !.error = ErrSetup], recs |-> recorders]

\* CanvasRecorder.ts line 25: a new CanvasRecorder starts with an empty
\* recordedBlobs array (and no MediaRecorder, so no event is queued)
NewBlobs(recs) == [r \in 1..Len(recs) |-> IF r <= Len(recordedBlobs) THEN recordedBlobs[r] ELSE 0]
NewPending(recs) == [r \in 1..Len(recs) |-> IF r <= Len(pendingData) THEN pendingData[r] ELSE 0]

setupRecorder ==
  /\ \E ok \in BOOLEAN :
       /\ ok => Len(recorders) < MaxRecorders
       /\ kState' = SetupRecorderResult(ok).st
       /\ recorders' = SetupRecorderResult(ok).recs
       /\ recordedBlobs' = NewBlobs(SetupRecorderResult(ok).recs)
       /\ pendingData' = NewPending(SetupRecorderResult(ok).recs)
  /\ last' = "setupRecorder"
  /\ UNCHANGED <<startTimestampAge, held, startTimers, orphans, lastSaved,
                 lastStartCalled, savedVideo>>
  /\ UNCHANGED otherThanKit

\* useCameraKit.ts lines 337-366 (button: CameraKitPreview onMouseDown /
\* onTouchStart): the record button is pressed.  The timer callback closes
\* over the state of the render the handler belongs to: the values of
\* recordButtonReleased and canvasRecorder before this press.  A timer also
\* records whether its press is still held (forThisPress) and whether that
\* press was released before the timer was due (releasedEarly).
K_startRecording ==
  /\ ~held
  /\ Cardinality(startTimers) < MaxStartTimers
  /\ \E ok \in BOOLEAN :
       LET setup == IF kState.canvasRecorder = NoRef
                      THEN SetupRecorderResult(ok)
                      ELSE [st |-> kState, recs |-> recorders]
       IN /\ (kState.canvasRecorder = NoRef /\ ok) => Len(recorders) < MaxRecorders
          /\ (kState.canvasRecorder # NoRef) => ok
          /\ kState' = [setup.st EXCEPT !.recordButtonReleased = FALSE,
                                        !.isRecording = TRUE]
          /\ recorders' = setup.recs
          /\ recordedBlobs' = NewBlobs(setup.recs)
          /\ pendingData' = NewPending(setup.recs)
  /\ startTimestampAge' = 0
  /\ held' = TRUE
  /\ startTimers' = startTimers \cup
                      {[left |-> StartDelayMs,
                        closureReleased |-> kState.recordButtonReleased,
                        closureRecorder |-> kState.canvasRecorder,
                        forThisPress |-> TRUE,
                        releasedEarly |-> FALSE]}
  /\ last' = "K_startRecording"
  /\ UNCHANGED <<orphans, lastSaved, lastStartCalled, savedVideo>>
  /\ UNCHANGED otherThanKit

\* time passes
Tick ==
  /\ startTimestampAge' = Min(startTimestampAge + TickMs, ClickThresholdMs)
  /\ startTimers' = {[t EXCEPT !.left = Max(t.left - TickMs, 0)] : t \in startTimers}
  /\ <<startTimestampAge', startTimers'>> # <<startTimestampAge, startTimers>>
  /\ last' = "Tick"
  /\ UNCHANGED <<kState, held, recorders, orphans, lastSaved, lastStartCalled,
                 recordedBlobs, pendingData, savedVideo>>
  /\ UNCHANGED otherThanKit

\* CanvasRecorder.ts lines 77-129: start() builds a new MediaRecorder,
\* empties recordedBlobs (line 116) and starts the recorder with a timeslice
\* of 1000 ms; a MediaRecorder it held that is still recording is no longer
\* referenced and keeps recording
StartRecorder(recs, r) == [recs EXCEPT ![r] = "recording"]

\* useCameraKit.ts lines 352-356: the start timer fires
StartTimerFire(t) ==
  /\ t \in startTimers
  /\ t.left = 0
  /\ startTimers' = startTimers \ {t}
  /\ IF ~t.closureReleased /\ t.closureRecorder # NoRef
       THEN /\ recorders[t.closureRecorder] = "recording" => orphans < MaxOrphans
            /\ recorders' = StartRecorder(recorders, t.closureRecorder)
            /\ orphans' = IF recorders[t.closureRecorder] = "recording"
                            THEN orphans + 1 ELSE orphans
            /\ recordedBlobs' = [recordedBlobs EXCEPT ![t.closureRecorder] = 0]
            /\ lastStartCalled' = TRUE
       ELSE /\ lastStartCalled' = FALSE
            /\ UNCHANGED <<recorders, orphans, recordedBlobs>>
  /\ last' = "StartTimerFire"
  /\ UNCHANGED <<kState, startTimestampAge, held, lastSaved, pendingData, savedVideo>>
  /\ UNCHANGED otherThanKit

\* CanvasRecorder.ts lines 143-151: stop().  Without a MediaRecorder it does
\* nothing; on a recording one requestData() and stop() leave it inactive; on
\* an inactive one requestData() throws InvalidStateError.
StopThrows(recs, r) == r # NoRef /\ recs[r] = "inactive"
StopRecorder(recs, r) ==
  IF r # NoRef /\ recs[r] = "recording" THEN [recs EXCEPT ![r] = "inactive"] ELSE recs

\* CanvasRecorder.ts lines 143-147: on a recording MediaRecorder
\* requestData() and stop() queue the dataavailable event that carries the
\* data gathered since the last chunk; the event is delivered in a later task
QueueFinalData(pend, r) == [pend EXCEPT ![r] = 1]

\* CanvasRecorder.ts lines 131-135: handleDataAvailable appends a chunk.
\* While the MediaRecorder records, one arrives whenever the timeslice of
\* 1000 ms (line 124) has elapsed.
DataAvailable(r) ==
  /\ recorders[r] = "recording"
  /\ recordedBlobs[r] < MaxChunks
  /\ recordedBlobs' = [recordedBlobs EXCEPT ![r] = @ + 1]
  /\ last' = "DataAvailable"
  /\ UNCHANGED <<kState, startTimestampAge, held, startTimers, recorders, orphans,
                 lastSaved, lastStartCalled, pendingData, savedVideo>>
  /\ UNCHANGED otherThanKit

\* the dataavailable event queued by requestData()/stop() is delivered
FinalDataDelivered(r) ==
  /\ pendingData[r] > 0
  /\ pendingData' = [pendingData EXCEPT ![r] = @ - 1]
  /\ recordedBlobs' = [recordedBlobs EXCEPT ![r] = @ + 1]
  /\ last' = "FinalDataDelivered"
  /\ UNCHANGED <<kState, startTimestampAge, held, startTimers, recorders, orphans,
                 lastSaved, lastStartCalled, savedVideo>>
  /\ UNCHANGED otherThanKit

\* useCameraKit.ts lines 368-397 (and takeSnapshot, 399-410): the record
\* button is released.  save() builds its Blob from recordedBlobs at the
\* moment it is called (CanvasRecorder.ts line 187), in the same task as
\* stop().
K_stopRecording ==
  /\ held
  /\ held' = FALSE
  /\ startTimers' = {[t EXCEPT !.forThisPress = FALSE,
                                 !.releasedEarly = IF t.forThisPress THEN t.left > 0 ELSE @]
                        : t \in startTimers}
  /\ LET r == kState.canvasRecorder
     IN /\ recorders' = StopRecorder(recorders, r)
        /\ \E hasData \in BOOLEAN :
             /\ hasData => (r # NoRef /\ recorders[r] = "recording")
             /\ pendingData' = IF hasData THEN QueueFinalData(pendingData, r)
                                ELSE pendingData
        /\ savedVideo' = IF r = NoRef \/ StopThrows(recorders, r)
                               \/ IsClickEvent(startTimestampAge)
                           THEN savedVideo
                           ELSE [chunks |-> recordedBlobs[r],
                                 notYetAppended |-> pendingData'[r]]
        /\ kState' = [kState EXCEPT
                        !.recordButtonReleased = TRUE,
                        !.isRecording = FALSE,
                        !.error = IF StopThrows(recorders, r) THEN ErrStop ELSE @]
        /\ lastSaved' = IF r = NoRef \/ StopThrows(recorders, r) THEN "none"
                        ELSE IF IsClickEvent(startTimestampAge) THEN "snapshot"
                        ELSE "video"
  /\ last' = "K_stopRecording"
  /\ UNCHANGED <<startTimestampAge, orphans, lastStartCalled, recordedBlobs>>
  /\ UNCHANGED otherThanKit

KitNext ==
  \/ setupRecorder
  \/ K_startRecording
  \/ Tick
  \/ \E t \in startTimers : StartTimerFire(t)
  \/ K_stopRecording
  \/ \E r \in 1..Len(recorders) : DataAvailable(r)
  \/ \E r \in 1..Len(recorders) : FinalDataDelivered(r)

\* =====================================================================
\* hooks/useCameraKit.ts (camera, session and the cleanup effect)
\* =====================================================================
\* cState is the part of the hook's state that initialize, setCameraSide and
\* cleanup write (kState is the part the recording actions write).
ErrKitInit == "Failed to initialize Camera Kit"
ErrSwitch == "Failed to switch camera"

\* lines 50-64: the initial state
InitialCameraState == [cameraKit |-> NoRef, session |-> NoRef, userMediaStream |-> NoRef,
                       isInitialized |-> FALSE, error |-> NULL, currentCamera |-> "BACK"]

\* line 450: the dependencies of cleanup; the values its closure holds
CleanupDeps(st) == [stream |-> st.userMediaStream, session |-> st.session]

KitCameraInit ==
  /\ cState = InitialCameraState
  /\ effectCleanup = CleanupDeps(InitialCameraState)
  /\ cKits = 0
  /\ cSessions = <<>>
  /\ cStreams = <<>>
  /\ cProcs = <<>>
  /\ lastOutcome = "none"

\* lines 437-450: cleanup as created in a render whose state held the stream
\* and the session of cl: it stops every track of that stream, pauses that
\* session and clears userMediaStream, session and isInitialized in state
RunCleanup(x, cl) ==
  [st |-> [x.st EXCEPT !.userMediaStream = NoRef, !.session = NoRef,
                       !.isInitialized = FALSE],
   streams |-> IF cl.stream # NoRef THEN StopAllTracks(x.streams, cl.stream)
               ELSE x.streams,
   sessions |-> IF cl.session # NoRef THEN [x.sessions EXCEPT ![cl.session] = "paused"]
                ELSE x.sessions]

\* lines 452-457: the effect on [cleanup].  A render in which userMediaStream
\* or session differ from those of the render that registered the effect
\* gives cleanup a new identity: React runs the registered destructor (the
\* cleanup of that earlier render) and registers the new one.  The
\* destructor's setState causes another render, for which the same holds;
\* after two rounds the dependencies are null and stay so.
RenderAndRunEffects(x, cl) ==
  IF CleanupDeps(x.st) = cl
    THEN [st |-> x.st, streams |-> x.streams, sessions |-> x.sessions, cl |-> cl]
    ELSE LET a == RunCleanup(x, cl)
             cl1 == CleanupDeps(x.st)
         IN IF CleanupDeps(a.st) = cl1
              THEN [st |-> a.st, streams |-> a.streams, sessions |-> a.sessions, cl |-> cl1]
              ELSE LET b == RunCleanup(a, cl1)
                   IN [st |-> b.st, streams |-> b.streams, sessions |-> b.sessions,
                       cl |-> CleanupDeps(a.st)]

\* a state update st with the environment (strs, sess), followed by the
\* renders and effects it causes
Commit(st, strs, sess) ==
  LET r == RenderAndRunEffects([st |-> st, streams |-> strs, sessions |-> sess],
                               effectCleanup)
  IN /\ cState' = r.st
     /\ cStreams' = r.streams
     /\ cSessions' = r.sessions
     /\ effectCleanup' = r.cl

\* an invocation of initialize or setCameraSide that is awaiting: its kind,
\* the await it is at, the side asked for, its local variables (cameraKit,
\* session, newMediaStream) and the userMediaStream and session of the state
\* its closure holds
CProc(k, p, s, cl) == [kind |-> k, pc |-> p, side |-> s, kit |-> NoRef,
                       session |-> NoRef, stream |-> NoRef,
                       closureStream |-> cl.stream, closureSession |-> cl.session]
CDrop(i) == [j \in 1..(Len(cProcs) - 1) |-> IF j < i THEN cProcs[j] ELSE cProcs[j + 1]]

\* lines 219-241 (initialize) and 286-292 (setCameraSide): the catch block of
\* invocation i.  initialize releases what its closure's state held (not the
\* local stream and session it has just acquired) and clears the state;
\* setCameraSide only records the error.
CFail(i) ==
  LET p == cProcs[i]
  IN /\ cProcs' = CDrop(i)
     /\ lastOutcome' = "failed"
     /\ IF p.kind = "init"
          THEN Commit([cState EXCEPT !.error = ErrKitInit, !.isInitialized = FALSE,
                                     !.cameraKit = NoRef, !.session = NoRef,
                                     !.userMediaStream = NoRef],
                      IF p.closureStream # NoRef
                        THEN StopAllTracks(cStreams, p.closureStream) ELSE cStreams,
                      IF p.closureSession # NoRef
                        THEN [cSessions EXCEPT ![p.closureSession] = "paused"]
                        ELSE cSessions)
          ELSE Commit([cState EXCEPT !.error = ErrSwitch], cStreams, cSessions)

\* lines 133-146: initialize up to its first await
K_initialize ==
  /\ IF cState.isInitialized \/ cState.cameraKit # NoRef
       THEN /\ lastOutcome' = "skipped"
            /\ UNCHANGED <<cState, effectCleanup, cSessions, cStreams, cProcs>>
       ELSE /\ Len(cProcs) < MaxProcs
            /\ cProcs' = Append(cProcs, CProc("init", "bootstrap", "BACK",
                                              CleanupDeps(cState)))
            /\ lastOutcome' = "pending"
            /\ Commit([cState EXCEPT !.error = NULL], cStreams, cSessions)
  /\ last' = "K_initialize"
  /\ UNCHANGED cKits
  /\ UNCHANGED otherThanKitCamera

\* lines 146-164: bootstrapCameraKit settles; without a canvas initialize
\* returns silently
K_BootstrapSettled(i) ==
  /\ cProcs[i].pc = "bootstrap"
  /\ \E ok \in BOOLEAN, canvasReady \in BOOLEAN :
       IF ok /\ cKits < MaxKits
         THEN /\ cKits' = cKits + 1
              /\ IF canvasReady
                   THEN /\ cProcs' = [cProcs EXCEPT ![i].pc = "createSession",
                                                    ![i].kit = cKits + 1]
                        /\ lastOutcome' = "pending"
                   ELSE /\ cProcs' = CDrop(i)
                        /\ lastOutcome' = "skipped"
              /\ UNCHANGED <<cState, effectCleanup, cSessions, cStreams>>
         ELSE /\ ~ok /\ canvasReady
              /\ CFail(i)
              /\ cKits' = cKits
  /\ last' = "K_BootstrapSettled"
  /\ UNCHANGED otherThanKitCamera

\* lines 164-176: createSession settles
K_CreateSessionSettled(i) ==
  /\ cProcs[i].pc = "createSession"
  /\ \E ok \in BOOLEAN :
       IF ok /\ Len(cSessions) < MaxSessions
         THEN /\ cSessions' = Append(cSessions, "paused")
              /\ cProcs' = [cProcs EXCEPT ![i].pc = "getUserMedia",
                                          ![i].session = Len(cSessions) + 1]
              /\ lastOutcome' = "pending"
              /\ UNCHANGED <<cState, effectCleanup, cStreams>>
         ELSE /\ ~ok
              /\ CFail(i)
  /\ last' = "K_CreateSessionSettled"
  /\ UNCHANGED cKits
  /\ UNCHANGED otherThanKitCamera

\* lines 176-190 (initialize) and 255-268 (setCameraSide): getUserMedia
\* settles; the new stream has a live video and a live audio track
K_GetUserMediaSettled(i) ==
  /\ cProcs[i].pc = "getUserMedia"
  /\ \E ok \in BOOLEAN :
       IF ok /\ Len(cStreams) < MaxStreams
         THEN /\ cStreams' = Append(cStreams, [video |-> TRUE, audio |-> TRUE,
                                               facing |-> FacingModeOf(cProcs[i].side)])
              /\ cProcs' = [cProcs EXCEPT ![i].pc = "setSource",
                                          ![i].stream = Len(cStreams) + 1]
              /\ lastOutcome' = "pending"
              /\ UNCHANGED <<cState, effectCleanup, cSessions>>
         ELSE /\ ~ok
              /\ CFail(i)
  /\ last' = "K_GetUserMediaSettled"
  /\ UNCHANGED cKits
  /\ UNCHANGED otherThanKitCamera

\* lines 190-201 (initialize: setSource on the local session, then play) and
\* 268-284 (setCameraSide: setSource and play on the session of the closure's
\* state, if any, then the state update)
K_SetSourceSettled(i) ==
  /\ cProcs[i].pc = "setSource"
  /\ LET p == cProcs[i]
         sess == IF p.kind = "init" THEN p.session ELSE p.closureSession
     IN \E ok \in BOOLEAN :
          IF ok
            THEN LET played == IF sess # NoRef
                                 THEN [cSessions EXCEPT ![sess] = "playing"]
                                 ELSE cSessions
                 IN IF p.kind = "init"
                      THEN /\ cProcs' = [cProcs EXCEPT ![i].pc = "loadLens"]
                           /\ cSessions' = played
                           /\ lastOutcome' = "pending"
                           /\ UNCHANGED <<cState, effectCleanup, cStreams>>
                      ELSE /\ cProcs' = CDrop(i)
                           /\ lastOutcome' = "ok"
                           /\ Commit([cState EXCEPT !.userMediaStream = p.stream,
                                                    !.currentCamera = p.side],
                                     cStreams, played)
            ELSE /\ sess # NoRef
                 /\ CFail(i)
  /\ last' = "K_SetSourceSettled"
  /\ UNCHANGED cKits
  /\ UNCHANGED otherThanKitCamera

\* line 205: loadLens settles
K_LoadLensSettled(i) ==
  /\ cProcs[i].pc = "loadLens"
  /\ \E ok \in BOOLEAN :
       IF ok THEN /\ cProcs' = [cProcs EXCEPT ![i].pc = "applyLens"]
                  /\ lastOutcome' = "pending"
                  /\ UNCHANGED <<cState, effectCleanup, cSessions, cStreams>>
             ELSE CFail(i)
  /\ last' = "K_LoadLensSettled"
  /\ UNCHANGED cKits
  /\ UNCHANGED otherThanKitCamera

\* lines 206-218: applyLens settles; on success the kit, the session and the
\* stream are put in state with isInitialized true
K_ApplyLensSettled(i) ==
  /\ cProcs[i].pc = "applyLens"
  /\ \E ok \in BOOLEAN :
       IF ok THEN /\ cProcs' = CDrop(i)
                  /\ lastOutcome' = "ok"
                  /\ Commit([cState EXCEPT !.cameraKit = cProcs[i].kit,
                                           !.session = cProcs[i].session,
                                           !.userMediaStream = cProcs[i].stream,
                                           !.isInitialized = TRUE],
                            cStreams, cSessions)
             ELSE CFail(i)
  /\ last' = "K_ApplyLensSettled"
  /\ UNCHANGED cKits
  /\ UNCHANGED otherThanKitCamera

\* lines 244-255 and 295-298: switchCamera calls setCameraSide with the
\* other side; setCameraSide pauses the session and stops the video track of
\* the stream its closure's state holds, then asks for a new stream
K_switchCamera ==
  /\ Len(cProcs) < MaxProcs
  /\ cProcs' = Append(cProcs, CProc("switch", "getUserMedia",
                                    OtherSide(cState.currentCamera), CleanupDeps(cState)))
  /\ IF cState.userMediaStream # NoRef
       THEN /\ cStreams' = StopVideoTrack(cStreams, cState.userMediaStream)
            /\ cSessions' = IF cState.session # NoRef
                              THEN [cSessions EXCEPT ![cState.session] = "paused"]
                              ELSE cSessions
       ELSE UNCHANGED <<cStreams, cSessions>>
  /\ lastOutcome' = "pending"
  /\ last' = "K_switchCamera"
  /\ UNCHANGED <<cState, effectCleanup, cKits>>
  /\ UNCHANGED otherThanKitCamera

\* lines 437-450: cleanup called by the user of the hook
K_cleanup ==
  /\ LET a == RunCleanup([st |-> cState, streams |-> cStreams, sessions |-> cSessions],
                         CleanupDeps(cState))
     IN Commit(a.st, a.streams, a.sessions)
  /\ lastOutcome' = "cleanup"
  /\ last' = "K_cleanup"
  /\ UNCHANGED <<cKits, cProcs>>
  /\ UNCHANGED otherThanKitCamera

KitCameraNext ==
  \/ K_initialize
  \/ \E i \in 1..Len(cProcs) : K_BootstrapSettled(i)
  \/ \E i \in 1..Len(cProcs) : K_CreateSessionSettled(i)
  \/ \E i \in 1..Len(cProcs) : K_GetUserMediaSettled(i)
  \/ \E i \in 1..Len(cProcs) : K_SetSourceSettled(i)
  \/ \E i \in 1..Len(cProcs) : K_LoadLensSettled(i)
  \/ \E i \in 1..Len(cProcs) : K_ApplyLensSettled(i)
  \/ K_switchCamera
  \/ K_cleanup

\* =====================================================================
\* VideoRecorder (src/unnamed/part_002, the version with skipConversion)
\* =====================================================================
\* vr holds the fields of the instance.  A canvas stream has one video track
\* and a microphone stream one audio track (canvasTracks, audioTracks: is the
\* track live); the combined stream holds the two tracks themselves, so it
\* is the pair of their numbers.  recordedChunks is the sequence of the
\* chunks in the array, each named by the MediaRecorder that delivered it.
NoCombined == <<NoRef, NoRef>>

\* lines 231-246: the fields after construction
NewRecorderFields == [mediaRecorder |-> NoRef, recordedChunks |-> <<>>,
                      canvasStream |-> NoRef, audioStream |-> NoRef,
                      combinedStream |-> NoCombined, ffmpeg |-> NULL,
                      isRecording |-> FALSE]

NoResult == [outcome |-> "none", blob |-> <<>>, format |-> "none", of |-> NoRef,
             converted |-> FALSE]

RecorderInit ==
  /\ vr = NewRecorderFields
  /\ vrRecorders = <<>>
  /\ canvasTracks = <<>>
  /\ audioTracks = <<>>
  /\ vrProcs = <<>>
  /\ skipConversion \in BOOLEAN
  /\ vrResult = NoResult

RecorderIdle == RecorderInit /\ skipConversion

\* lines 282 and 356: the guards of startRecording and stopRecording
NotRecordingMut(v) == ~v.isRecording /\ v.mediaRecorder = NoRef
NotRecording(v) == ~v.isRecording \/ v.mediaRecorder = NoRef

\* lines 453-466: track.stop(); the argument and the result say whether
\* the track is live
AfterStop(live) == FALSE

\* line 471: cleanup sets isRecording
RecordingAfterCleanupMut(b) == b
RecordingAfterCleanup(b) == FALSE

\* lines 434-448: convertToMP4 returns the MP4 blob, or the WebM blob when
\* anything in it has thrown
ConvertResultMut(ok) == IF ok THEN "mp4" ELSE "rejected"
ConvertResult(ok) == IF ok THEN "mp4" ELSE "webm"

StopCanvas(ct, id) == IF id # NoRef THEN [ct EXCEPT ![id] = AfterStop(@)] ELSE ct
StopAudio(at, id) == IF id # NoRef THEN [at EXCEPT ![id] = AfterStop(@)] ELSE at

\* a MediaRecorder whose tracks have all ended stops by itself: it delivers
\* its data and the stop event
EndedRecordersStop(recs, ct, at) ==
  [r \in 1..Len(recs) |->
     IF recs[r].state = "recording" /\ ~ct[recs[r].canvas] /\ ~at[recs[r].audio]
       THEN [recs[r] EXCEPT !.state = "inactive", !.stopPending = TRUE]
       ELSE recs[r]]

\* lines 451-472: cleanup, on fields v with canvas tracks ct, audio tracks at
\* and recorders recs
VRCleanup(v, ct, at, recs) ==
  LET at1 == StopAudio(at, v.audioStream)
      ct1 == StopCanvas(ct, v.canvasStream)
      ct2 == StopCanvas(ct1, v.combinedStream[1])
      at2 == StopAudio(at1, v.combinedStream[2])
  IN [vr |-> [v EXCEPT !.audioStream = NoRef, !.canvasStream = NoRef,
                       !.combinedStream = NoCombined, !.mediaRecorder = NoRef,
                       !.recordedChunks = <<>>,
                       !.isRecording = RecordingAfterCleanup(@)],
      canvasTracks |-> ct2,
      audioTracks |-> at2,
      recorders |-> EndedRecordersStop(recs, ct2, at2)]

ApplyCleanup(c) ==
  /\ vr' = c.vr
  /\ canvasTracks' = c.canvasTracks
  /\ audioTracks' = c.audioTracks
  /\ vrRecorders' = c.recorders

VRDrop(i) == [j \in 1..(Len(vrProcs) - 1) |-> IF j < i THEN vrProcs[j] ELSE vrProcs[j + 1]]

\* lines 359-398: a promise of stopRecording has not settled yet: the stop
\* event of its recorder is to come, or its conversion is running
StopInFlight ==
  \/ \E r \in 1..Len(vrRecorders) : vrRecorders[r].stopPending /\ vrRecorders[r].onstop # "log"
  \/ \E i \in 1..Len(vrProcs) : vrProcs[i].kind = "stop"

\* lines 281-294: startRecording up to the await of getUserMedia
VR_startRecording ==
  /\ IF vr.isRecording
       THEN UNCHANGED <<vr, canvasTracks, vrProcs>>
       ELSE /\ Len(canvasTracks) < MaxStarts
            /\ canvasTracks' = Append(canvasTracks, TRUE)
            /\ vr' = [vr EXCEPT !.canvasStream = Len(canvasTracks) + 1]
            /\ vrProcs' = Append(vrProcs, [kind |-> "start", pc |-> "getUserMedia",
                                           blob |-> <<>>, of |-> NoRef,
                                           dispose |-> FALSE,
                                           duringStop |-> StopInFlight])
  /\ vrResult' = NoResult
  /\ last' = "VR_startRecording"
  /\ UNCHANGED <<vrRecorders, audioTracks, skipConversion>>
  /\ UNCHANGED otherThanRecorder

\* lines 294-352: getUserMedia settles.  On success the microphone stream is
\* stored, the combined stream is built from this.canvasStream (a TypeError
\* when cleanup has cleared it), the MediaRecorder is created (or its
\* construction throws) and started, recordedChunks is a new empty array and
\* isRecording is true.
VR_MicSettled(i) ==
  /\ vrProcs[i].kind = "start"
  /\ vrProcs' = VRDrop(i)
  /\ \E ok \in BOOLEAN, recorderOk \in BOOLEAN :
       IF ok
         THEN LET a == Len(audioTracks) + 1
              IN /\ audioTracks' = Append(audioTracks, TRUE)
                 /\ IF vr.canvasStream = NoRef
                      THEN /\ recorderOk
                           /\ vr' = [vr EXCEPT !.audioStream = a]
                           /\ vrRecorders' = vrRecorders
                           /\ vrResult' = [NoResult EXCEPT !.outcome = "threw"]
                      ELSE IF recorderOk
                        THEN /\ vrRecorders' = Append(vrRecorders,
                                  [state |-> "recording", canvas |-> vr.canvasStream,
                                   audio |-> a, stopPending |-> FALSE,
                                   onstop |-> "log", produced |-> 0,
                                   duringStop |-> vrProcs[i].duringStop])
                             /\ vr' = [vr EXCEPT !.audioStream = a,
                                                 !.combinedStream = <<vr.canvasStream, a>>,
                                                 !.mediaRecorder = Len(vrRecorders) + 1,
                                                 !.recordedChunks = <<>>,
                                                 !.isRecording = TRUE]
                             /\ vrResult' = NoResult
                        ELSE /\ vr' = [vr EXCEPT !.audioStream = a,
                                                 !.combinedStream = <<vr.canvasStream, a>>]
                             /\ vrRecorders' = vrRecorders
                             /\ vrResult' = [NoResult EXCEPT !.outcome = "threw"]
         ELSE /\ recorderOk
              /\ vrResult' = [NoResult EXCEPT !.outcome = "threw"]
              /\ UNCHANGED <<vr, vrRecorders, audioTracks>>
  /\ last' = "VR_MicSettled"
  /\ UNCHANGED <<canvasTracks, skipConversion>>
  /\ UNCHANGED otherThanRecorder

\* lines 331-335: a chunk of recorder r (start(100), line 345) is pushed on
\* the array this.recordedChunks refers to at that moment
VR_DataAvailable(r) ==
  /\ vrRecorders[r].state = "recording"
  /\ vrRecorders[r].produced < MaxRecorderChunks
  /\ Len(vr.recordedChunks) < MaxRecorderChunks
  /\ vrRecorders' = [vrRecorders EXCEPT ![r].produced = @ + 1]
  /\ vr' = [vr EXCEPT !.recordedChunks = Append(@, r)]
  /\ vrResult' = NoResult
  /\ last' = "VR_DataAvailable"
  /\ UNCHANGED <<canvasTracks, audioTracks, vrProcs, skipConversion>>
  /\ UNCHANGED otherThanRecorder

\* lines 355-398: stopRecording up to the return of the promise: it throws
\* when not recording, otherwise installs its onstop handler, calls stop()
\* and clears isRecording.  byDispose: the call is the one dispose makes.
StopRecordingCall(byDispose) ==
  IF NotRecording(vr)
    THEN /\ vrResult' = [NoResult EXCEPT !.outcome = "threw"]
         /\ UNCHANGED <<vr, vrRecorders>>
    ELSE /\ vr.mediaRecorder # NoRef
         /\ vrRecorders' = [vrRecorders EXCEPT
              ![vr.mediaRecorder].onstop = IF byDispose THEN "resolveDispose" ELSE "resolve",
              ![vr.mediaRecorder].stopPending = (@ \/ vrRecorders[vr.mediaRecorder].state = "recording"),
              ![vr.mediaRecorder].state = "inactive"]
         /\ vr' = [vr EXCEPT !.isRecording = FALSE]
         /\ vrResult' = NoResult

VR_stopRecording ==
  /\ StopRecordingCall(FALSE)
  /\ last' = "VR_stopRecording"
  /\ UNCHANGED <<canvasTracks, audioTracks, vrProcs, skipConversion>>
  /\ UNCHANGED otherThanRecorder

\* the fields after the continuation of dispose (lines 482-488) has run, if
\* the stop that resolves is the one dispose awaits
AfterDispose(c, byDispose) ==
  IF byDispose
    THEN LET d == VRCleanup(c.vr, c.canvasTracks, c.audioTracks, c.recorders)
         IN [d EXCEPT !.vr.ffmpeg = NULL]
    ELSE c

\* lines 366-394: recorder r delivers its remaining data and the stop
\* event.  The handler of stopRecording builds the WebM blob from
\* this.recordedChunks; with skipConversion it runs cleanup and resolves,
\* otherwise convertToMP4 starts (401-410: it initializes FFmpeg first when
\* this.ffmpeg is null, lines 248-253).
VR_StopEvent(r) ==
  /\ vrRecorders[r].stopPending
  /\ LET more == vrRecorders[r].produced < MaxRecorderChunks
                 /\ Len(vr.recordedChunks) < MaxRecorderChunks
         chunks1 == IF more THEN Append(vr.recordedChunks, r) ELSE vr.recordedChunks
         recs1 == [vrRecorders EXCEPT ![r].stopPending = FALSE,
                                      ![r].produced = IF more THEN @ + 1 ELSE @]
         v1 == [vr EXCEPT !.recordedChunks = chunks1]
         h == vrRecorders[r].onstop
     IN IF h = "log"
          THEN /\ vr' = v1
               /\ vrRecorders' = recs1
               /\ vrResult' = NoResult
               /\ UNCHANGED <<canvasTracks, audioTracks, vrProcs>>
          ELSE IF skipConversion
            THEN /\ ApplyCleanup(AfterDispose(VRCleanup(v1, canvasTracks, audioTracks, recs1),
                                              h = "resolveDispose"))
                 /\ vrResult' = [outcome |-> "resolved", blob |-> chunks1,
                                 format |-> "webm", of |-> r, converted |-> FALSE]
                 /\ vrProcs' = vrProcs
            ELSE /\ Len(vrProcs) < MaxRecorderProcs
                 /\ vrProcs' = Append(vrProcs,
                      [kind |-> "stop",
                       pc |-> IF vr.ffmpeg = NULL THEN "loadLocal" ELSE "convert",
                       blob |-> chunks1, of |-> r, dispose |-> (h = "resolveDispose"),
                       duringStop |-> FALSE])
                 /\ vr' = [v1 EXCEPT !.ffmpeg = IF @ = NULL THEN "unloaded" ELSE @]
                 /\ vrRecorders' = recs1
                 /\ vrResult' = NoResult
                 /\ UNCHANGED <<canvasTracks, audioTracks>>
  /\ last' = "VR_StopEvent"
  /\ UNCHANGED skipConversion
  /\ UNCHANGED otherThanRecorder

\* lines 378-384 and 434-448: convertToMP4 has returned for the stop i (ok:
\* every FFmpeg call in it succeeded); the handler runs cleanup and resolves
\* the promise of stopRecording
ResolveStop(i, ok) ==
  /\ ApplyCleanup(AfterDispose(VRCleanup(vr, canvasTracks, audioTracks, vrRecorders),
                               vrProcs[i].dispose))
  /\ vrResult' = [outcome |-> IF ConvertResult(ok) = "rejected" THEN "rejected" ELSE "resolved",
                  blob |-> vrProcs[i].blob, format |-> ConvertResult(ok),
                  of |-> vrProcs[i].of, converted |-> ok]
  /\ vrProcs' = VRDrop(i)

\* lines 259-264: the load from the local files settles
VR_LoadLocalSettled(i) ==
  /\ vrProcs[i].kind = "stop" /\ vrProcs[i].pc = "loadLocal"
  /\ \E ok \in BOOLEAN :
       /\ vrProcs' = [vrProcs EXCEPT ![i].pc = IF ok THEN "convert" ELSE "loadCdn"]
       /\ vr' = [vr EXCEPT !.ffmpeg = IF ok /\ @ # NULL THEN "loaded" ELSE @]
  /\ vrResult' = NoResult
  /\ last' = "VR_LoadLocalSettled"
  /\ UNCHANGED <<vrRecorders, canvasTracks, audioTracks, skipConversion>>
  /\ UNCHANGED otherThanRecorder

\* lines 265-278: the load from the CDN settles; when it fails too,
\* initializeFFmpeg throws and convertToMP4 returns the WebM blob
VR_LoadCdnSettled(i) ==
  /\ vrProcs[i].kind = "stop" /\ vrProcs[i].pc = "loadCdn"
  /\ \E ok \in BOOLEAN :
       IF ok
         THEN /\ vrProcs' = [vrProcs EXCEPT ![i].pc = "convert"]
              /\ vr' = [vr EXCEPT !.ffmpeg = IF @ # NULL THEN "loaded" ELSE @]
              /\ vrResult' = NoResult
              /\ UNCHANGED <<vrRecorders, canvasTracks, audioTracks>>
         ELSE ResolveStop(i, FALSE)
  /\ last' = "VR_LoadCdnSettled"
  /\ UNCHANGED skipConversion
  /\ UNCHANGED otherThanRecorder

\* lines 408-441: writeFile, exec, readFile and deleteFile settle; without a
\* loaded FFmpeg they throw
VR_ConvertSettled(i) ==
  /\ vrProcs[i].kind = "stop" /\ vrProcs[i].pc = "convert"
  /\ \E ok \in BOOLEAN :
       /\ ok => vr.ffmpeg = "loaded"
       /\ ResolveStop(i, ok)
  /\ last' = "VR_ConvertSettled"
  /\ UNCHANGED skipConversion
  /\ UNCHANGED otherThanRecorder

\* lines 478-489: dispose; while recording it awaits stopRecording first
VR_dispose ==
  /\ IF vr.isRecording
       THEN /\ StopRecordingCall(TRUE)
            /\ UNCHANGED <<canvasTracks, audioTracks>>
       ELSE /\ ApplyCleanup([VRCleanup(vr, canvasTracks, audioTracks, vrRecorders)
                               EXCEPT !.vr.ffmpeg = NULL])
            /\ vrResult' = NoResult
  /\ last' = "VR_dispose"
  /\ UNCHANGED <<vrProcs, skipConversion>>
  /\ UNCHANGED otherThanRecorder

RecorderNext ==
  \/ VR_startRecording
  \/ \E i \in 1..Len(vrProcs) : VR_MicSettled(i)
  \/ \E r \in 1..Len(vrRecorders) : VR_DataAvailable(r)
  \/ VR_stopRecording
  \/ \E r \in 1..Len(vrRecorders) : VR_StopEvent(r)
  \/ \E i \in 1..Len(vrProcs) : VR_LoadLocalSettled(i)
  \/ \E i \in 1..Len(vrProcs) : VR_LoadCdnSettled(i)
  \/ \E i \in 1..Len(vrProcs) : VR_ConvertSettled(i)
  \/ VR_dispose

\* =====================================================================
\* CanvasRecorder.start (src/src/utils/CanvasRecorder.ts)
\* =====================================================================
\* codecSettings is settings.recodeVideoCodecs, typeSupported the set of
\* codec strings for which MediaRecorder.isTypeSupported is true, canvasRec
\* the fields start() writes and startError the message of the error the
\* last start() threw.
CodecStrings == {"video/mp4;codecs=avc1", "video/webm;codecs=vp9", "video/webm;codecs=vp8"}
Containers == {"mp4", "webm"}
NoError == "none"

\* lines 25-30: the fields after construction; a MediaRecorder is its
\* mimeType and its state, both NULL while there is none
FreshCanvasRecorder ==
  [supportedCodec |-> NULL, recordFormat |-> "",
   mediaRecorder |-> [mimeType |-> NULL, state |-> NULL]]

\* A file name is the sequence of its parts between the dots; <<>> is the
\* argument left out.
FileNames == {<<>>, <<"clip">>, <<"clip", "mov">>}

\* shareStep is what the last call of share() did: its arguments and the
\* platform (canShare absent, false or true; did navigator.share reject),
\* the file handed to navigator.share, the arguments of the calls of save()
\* and how the promise of share() settled.
NoShare == [fileName |-> <<>>, canShare |-> "absent", shareRejected |-> FALSE,
            shared |-> <<>>, sharedType |-> "", saveCalls |-> <<>>, outcome |-> "none"]

CanvasRecorderInit ==
  /\ shareStep = NoShare
  /\ codecSettings \in UNION {[1..n -> [codecString : CodecStrings, container : Containers]]
                               : n \in 0..MaxCodecs}
  /\ typeSupported \in SUBSET CodecStrings
  /\ canvasRec = FreshCanvasRecorder
  /\ startError = NoError

CanvasRecorderIdle == CanvasRecorderInit /\ codecSettings = <<>> /\ typeSupported = {}

\* line 88: the loop takes a supported type only while none was found
TakesTypeMut(foundTypes) == TRUE
TakesType(foundTypes) == foundTypes = FALSE

\* lines 83-95: the loop over the types from index i on, with the flag
\* foundTypes and the fields written so far
RECURSIVE CheckSupportedTypes(_, _, _)
CheckSupportedTypes(i, foundTypes, fields) ==
  IF i > Len(codecSettings)
    THEN fields
    ELSE IF TakesType(foundTypes) /\ codecSettings[i].codecString \in typeSupported
      THEN CheckSupportedTypes(i + 1, TRUE,
             [fields EXCEPT !.supportedCodec = codecSettings[i].codecString,
                            !.recordFormat = codecSettings[i].container])
      ELSE CheckSupportedTypes(i + 1, foundTypes, fields)

\* lines 77-126: start(); the constructor of MediaRecorder and its start
\* may throw
CR_start ==
  /\ LET found == CheckSupportedTypes(1, FALSE, canvasRec)
     IN IF found.supportedCodec = NULL
          THEN /\ canvasRec' = found
               /\ startError' = "No supported video format found"
          ELSE \E created \in BOOLEAN, started \in BOOLEAN :
                 IF ~created
                   THEN /\ started
                        /\ canvasRec' = found
                        /\ startError' = "Failed to create MediaRecorder"
                   ELSE /\ canvasRec' = [found EXCEPT !.mediaRecorder =
                              [mimeType |-> found.supportedCodec,
                               state |-> IF started THEN "recording" ELSE "inactive"]]
                        /\ startError' = IF started THEN NoError
                                         ELSE "Failed to start recording"
  /\ shareStep' = NoShare
  /\ last' = "CR_start"
  /\ UNCHANGED <<codecSettings, typeSupported>>
  /\ UNCHANGED otherThanCanvasRecorder

\* lines 154-162: the name of the shared file: the first part of fileName
\* (or of 'recording') and the record format
ShareName(fileName, recordFormat) ==
  <<Head(IF fileName = <<>> THEN <<"recording">> ELSE fileName), recordFormat>>

\* line 165: supportedCodec.split(';')[0]
ShareFileType(codecString) ==
  IF codecString = "video/mp4;codecs=avc1" THEN "video/mp4" ELSE "video/webm"

\* lines 175-182: what share() does with the file: navigator.share when
\* canShare says so, save(fileName) when it does not or when the share
\* rejects (the catch handler returns nothing, so the await completes)
FallsBack(canShare, rejected) == canShare # "true" \/ rejected

\* lines 153-183: share(fileName); supportedCodec!.split throws a TypeError
\* while supportedCodec is null
CR_share ==
  /\ \E fileName \in FileNames, canShare \in {"absent", "false", "true"},
        rejected \in BOOLEAN :
       /\ rejected => canShare = "true"
       /\ IF canvasRec.supportedCodec = NULL
            THEN shareStep' = [NoShare EXCEPT !.fileName = fileName,
                                              !.canShare = canShare,
                                              !.shareRejected = rejected,
                                              !.outcome = "rejected"]
            ELSE shareStep' =
                   [fileName |-> fileName, canShare |-> canShare,
                    shareRejected |-> rejected,
                    shared |-> IF canShare = "true"
                                 THEN ShareName(fileName, canvasRec.recordFormat)
                                 ELSE <<>>,
                    sharedType |-> IF canShare = "true"
                                     THEN ShareFileType(canvasRec.supportedCodec)
                                     ELSE "",
                    saveCalls |-> IF FallsBack(canShare, rejected)
                                    THEN <<fileName>> ELSE <<>>,
                    outcome |-> "resolved"]
  /\ last' = "CR_share"
  /\ UNCHANGED <<codecSettings, typeSupported, canvasRec, startError>>
  /\ UNCHANGED otherThanCanvasRecorder

CanvasRecorderNext == CR_start \/ CR_share

\* =====================================================================
\* useMobileDetection (src/unnamed/part_003)
\* =====================================================================
\* mdEnv is what the hook reads from the browser: the user agent (the set
\* of the product tokens in it), 'ontouchstart' in window,
\* navigator.maxTouchPoints, the window size and the three signs of a PWA.
\* mdState is the state of the hook, mdMounted says that its effect has run.
InnerWidths == {320, 768, 769, 1280}
InnerHeights == {"600", "900"}

\* line 25: toLowerCase() of a token
LowerCase(token) ==
  CASE token = "Android" -> "android"
    [] token = "iPad" -> "ipad"
    [] token = "Macintosh" -> "macintosh"

\* line 26
MobileKeywords == {"android", "iphone", "ipad", "ipod", "blackberry", "windows phone"}

\* line 27: mobileKeywords.some(keyword => userAgent.includes(keyword))
IsMobileUserAgent(env) == \E token \in env.userAgent : LowerCase(token) \in MobileKeywords

\* line 28: window.innerWidth <= 768
MobileBreakpoint == 768
IsMobileScreenMut(env) == env.innerWidth < MobileBreakpoint
IsMobileScreen(env) == env.innerWidth <= MobileBreakpoint

\* line 29
IsTouchDevice(env) == env.onTouchStart \/ env.maxTouchPoints > 0

\* lines 4-6: the state before the effect has run
MobileInit ==
  /\ mdEnv \in [userAgent : SUBSET {"Android", "iPad", "Macintosh"},
                onTouchStart : BOOLEAN,
                maxTouchPoints : 0..1, innerWidth : InnerWidths,
                innerHeight : InnerHeights, standalone : BOOLEAN,
                iosStandalone : BOOLEAN, homeScreen : BOOLEAN]
  /\ mdState = [isMobile |-> FALSE, viewportHeight |-> "100vh", isPWA |-> FALSE]
  /\ mdMounted = FALSE

MobileIdle ==
  /\ MobileInit
  /\ mdEnv.userAgent = {} /\ ~mdEnv.onTouchStart /\ mdEnv.maxTouchPoints = 0
  /\ mdEnv.innerWidth = 1280 /\ mdEnv.innerHeight = "900"
  /\ ~mdEnv.standalone /\ ~mdEnv.iosStandalone /\ ~mdEnv.homeScreen

\* lines 20-22: updateViewportHeight
UpdateViewportHeight(st, env) == [st EXCEPT !.viewportHeight = env.innerHeight]

\* lines 24-49: checkAndSetMobile (with checkPWAMode, 9-18)
CheckAndSetMobile(st, env) ==
  LET mobile == IsMobileUserAgent(env) \/ (IsTouchDevice(env) /\ IsMobileScreen(env))
      st1 == [st EXCEPT !.isMobile = mobile]
  IN IF mobile
       THEN [UpdateViewportHeight(st1, env) EXCEPT
               !.isPWA = env.standalone \/ env.iosStandalone \/ env.homeScreen]
       ELSE st1

\* lines 8, 55-60: the effect runs once after the first render
MD_Mount ==
  /\ ~mdMounted
  /\ mdMounted' = TRUE
  /\ mdState' = UpdateViewportHeight(CheckAndSetMobile(mdState, mdEnv), mdEnv)
  /\ mdEnv' = mdEnv
  /\ last' = "MD_Mount"
  /\ UNCHANGED otherThanMobile

\* lines 51-53: the window is resized and the resize event is handled
MD_Resize ==
  /\ mdMounted
  /\ \E w \in InnerWidths, h \in InnerHeights :
       /\ mdEnv' = [mdEnv EXCEPT !.innerWidth = w, !.innerHeight = h]
       /\ mdState' = CheckAndSetMobile(mdState, mdEnv')
  /\ mdMounted' = mdMounted
  /\ last' = "MD_Resize"
  /\ UNCHANGED otherThanMobile

\* line 60: orientationchange is handled by updateViewportHeight
MD_OrientationChange ==
  /\ mdMounted
  /\ mdState' = UpdateViewportHeight(mdState, mdEnv)
  /\ UNCHANGED <<mdEnv, mdMounted>>
  /\ last' = "MD_OrientationChange"
  /\ UNCHANGED otherThanMobile

MobileNext == MD_Mount \/ MD_Resize \/ MD_OrientationChange

\* =====================================================================
\* Specifications
\* =====================================================================
\* one fixed start of a component, used by the other components' specifications
PreviewIdle ==
  PreviewInit /\ mode = "photo" /\ ~isPWA /\ ~isMobile /\ recorderSupported
DirectIdle == DirectInit /\ envConfigured

\* the hook under study starts from every configuration of its environment
InitDirect ==
  PreviewIdle /\ DirectInit /\ KitInit /\ KitCameraInit /\ RecorderIdle /\ CanvasRecorderIdle
  /\ MobileIdle
  /\ last = "init"
InitKit ==
  PreviewIdle /\ DirectIdle /\ KitInit /\ KitCameraInit /\ RecorderIdle /\ CanvasRecorderIdle
  /\ MobileIdle
  /\ last = "init"
InitPreview ==
  PreviewInit /\ DirectIdle /\ KitInit /\ KitCameraInit /\ RecorderIdle /\ CanvasRecorderIdle
  /\ MobileIdle
  /\ last = "init"
InitRecorder ==
  PreviewIdle /\ DirectIdle /\ KitInit /\ KitCameraInit /\ RecorderInit /\ CanvasRecorderIdle
  /\ MobileIdle
  /\ last = "init"
InitMobile ==
  PreviewIdle /\ DirectIdle /\ KitInit /\ KitCameraInit /\ RecorderIdle /\ CanvasRecorderIdle
  /\ MobileInit
  /\ last = "init"
InitCanvasRecorder ==
  PreviewIdle /\ DirectIdle /\ KitInit /\ KitCameraInit /\ RecorderIdle /\ CanvasRecorderInit
  /\ MobileIdle
  /\ last = "init"
InitKitCamera ==
  PreviewIdle /\ DirectIdle /\ KitInit /\ KitCameraInit /\ RecorderIdle /\ CanvasRecorderIdle
  /\ MobileIdle
  /\ last = "init"

SpecDirect == InitDirect /\ [][DirectNext]_vars

SpecKit == InitKit /\ [][KitNext]_vars

SpecPreview == InitPreview /\ [][PreviewNext]_vars

SpecPreviewMedia == InitPreview /\ [][PreviewMediaNext]_vars

SpecKitCamera == InitKitCamera /\ [][KitCameraNext]_vars

SpecRecorder == InitRecorder /\ [][RecorderNext]_vars

SpecCanvasRecorder == InitCanvasRecorder /\ [][CanvasRecorderNext]_vars

SpecMobile == InitMobile /\ [][MobileNext]_vars

\* ---------------------------------------------------------------------
\* Claims about CameraPreview
\* ---------------------------------------------------------------------

\* C1: since retryCount was last reset to 0, failures reported to
\* handleUserMediaError have triggered at most 3 automatic re-acquisitions;
\* the failure that arrives when retryCount is 3 sets a non-null error, leaves
\* the Webcam failed (no new request) and schedules no retry timer.
C1_AutoRetriesBounded ==
  /\ [](autoAttempts <= 3)
  /\ [][(last' = "handleUserMediaError" /\ retryCount = 3)
          => /\ error' # NULL
             /\ webcam' = "failed"
             /\ retryTimers' = retryTimers
             /\ initTimeoutPending' = initTimeoutPending
             /\ autoAttempts' = autoAttempts]_vars

\* C1 witness: the fourth consecutive failure has just been reported, after
\* three automatic re-acquisitions, and the error message is set.
C1_Witness ==
  /\ last = "handleUserMediaError"
  /\ autoAttempts = 3
  /\ retryCount = 3
  /\ error = ErrInit
  /\ webcam = "failed"

\* C2: once the retries are exhausted and the initialization error is shown,
\* error stays non-null in every step other than the retry button (PWA retry
\* or page reload) and a facing/device change.
C2_ErrorStaysShown ==
  [][(error = ErrInit /\ last' \notin {"handlePWARetry", "Reload", "onFacingChange"})
       => error' # NULL]_vars

\* C4: pressing 'Retry Camera' always remounts the Webcam, that is, a new
\* camera request is pending after handlePWARetry whatever retryCount was.
C4_RetryReacquires ==
  [][last' = "handlePWARetry" => webcam' = "requesting"]_vars

\* ---------------------------------------------------------------------
\* Claims about useCameraKitDirect
\* ---------------------------------------------------------------------

\* C3: a click on Retry (shown once initialize has failed and set
\* state.error) starts the initialization sequence again: a new invocation
\* of initialize is awaiting bootstrapCameraKit afterwards.
C3_RetryRunsInitAgain ==
  [][(last' = "RetryClick" /\ envConfigured)
       => /\ Len(procs') = Len(procs) + 1
          /\ procs'[Len(procs')].kind = "init"
          /\ procs'[Len(procs')].pc = "bootstrap"]_vars

\* C7: cleanup() on an initialized hook with nothing in flight stops every
\* track of the held stream, pauses the session, clears the five references
\* and puts state back to the initial state.
C7_CleanupReleasesAll ==
  [][(last' = "cleanup" /\ dState.isInitialized /\ procs = <<>>)
       => /\ mediaStreamRef # NoRef
               => ~streams'[mediaStreamRef].video /\ ~streams'[mediaStreamRef].audio
          /\ sessionRef # NoRef => sessions'[sessionRef] = "paused"
          /\ cameraKitRef' = NoRef
          /\ sessionRef' = NoRef
          /\ mediaStreamRef' = NoRef
          /\ mediaStreamSourceRef' = NoRef
          /\ lensRef' = NULL
          /\ dState' = [isInitialized |-> FALSE, isRecording |-> FALSE,
                        error |-> NULL, currentCamera |-> "BACK"]]_vars

\* C8: when cleanup() was called while an invocation was awaiting, then once
\* nothing is in flight any more no acquired track is live, no session is
\* held and isInitialized is false.
C8_CleanupMidFlight ==
  (midFlightCleanup /\ procs = <<>>)
    => /\ LiveStreams = {}
       /\ sessionRef = NoRef
       /\ ~dState.isInitialized

C10_OldStreamStopped ==
  [][(last' = "SetSourceSettled" /\ dState.isInitialized /\ Len(procs) = 1
        /\ mediaStreamRef # NoRef /\ mediaStreamRef' # mediaStreamRef)
       => /\ ~streams'[mediaStreamRef].video
          /\ ~streams'[mediaStreamRef].audio]_vars

\* ---------------------------------------------------------------------
\* Claims about useCameraKit
\* ---------------------------------------------------------------------

\* C5: stopRecording (for a press whose CanvasRecorder exists) saves a
\* snapshot and no video when the button is released less than 300 ms after
\* startRecording, and a video and no snapshot otherwise; afterwards
\* isRecording is false and recordButtonReleased is true.
C5_StopDecidesByDuration ==
  [][(last' = "K_stopRecording" /\ kState.canvasRecorder # NoRef)
       => /\ startTimestampAge < 300 => lastSaved' = "snapshot"
          /\ startTimestampAge >= 300 => lastSaved' = "video"
          /\ ~kState'.isRecording
          /\ kState'.recordButtonReleased]_vars

\* C6: when the start timer of a press fires while that press is still
\* held (and the hook has a CanvasRecorder), CanvasRecorder.start() is called
\* and the recorder of the hook is recording afterwards.
C6_HeldPressStartsRecorder ==
  [][(last' = "StartTimerFire" /\ held /\ kState.canvasRecorder # NoRef
        /\ \E t \in startTimers \ startTimers' : t.forThisPress)
       => /\ lastStartCalled'
          /\ recorders'[kState.canvasRecorder] = "recording"]_vars

\* ---------------------------------------------------------------------
\* Further claims about useCameraKitDirect
\* ---------------------------------------------------------------------

\* C13: in every reachable state, isInitialized implies that the CameraKit
\* instance, the session and a media stream are held (the three references
\* are non-null).
C13_InitializedHoldsRefs ==
  dState.isInitialized
    => /\ cameraKitRef # NoRef
       /\ sessionRef # NoRef
       /\ mediaStreamRef # NoRef

\* ---------------------------------------------------------------------
\* Further claims about CameraPreview
\* ---------------------------------------------------------------------

\* C14: once the stream is acquired and the loading state is over (isReady,
\* not isInitializing), no step other than a failure, a visibility change (and
\* its timer), a facing/device change or the retry button puts the component
\* back into the loading state; in particular a retry timer left by an
\* earlier failure does not.
C14_ReadyStaysOutOfLoading ==
  [][(isReady /\ ~isInitializing
        /\ last' \notin {"handleUserMediaError", "handleVisibilityChange",
                         "VisTimerFire", "onFacingChange", "handlePWARetry", "Reload"})
       => ~isInitializing']_vars

\* C15: retryCount is within 0..3 in every reachable state.
C15_RetryCountInRange == retryCount \in 0..3

\* C16: the Webcam is not remounted (no new camera request) by the failure
\* handler itself: the automatic retry waits for the delay timer the handler
\* schedules.
C16_RetryWaitsForTimer ==
  [][(last' = "handleUserMediaError" /\ retryCount < 3) => webcam' # "requesting"]_vars

\* ---------------------------------------------------------------------
\* Further claims about useCameraKit
\* ---------------------------------------------------------------------

\* C17: the start timer of a press that was released before the 300 ms
\* delay had elapsed does not call CanvasRecorder.start() when it fires.
C17_QuickTapStartsNothing ==
  [][(last' = "StartTimerFire" /\ \E t \in startTimers \ startTimers' : t.releasedEarly)
       => ~lastStartCalled']_vars

\* C18: when stopRecording saves the video of a held press whose recorder was
\* recording, the file is built from every chunk of that recording: no chunk
\* emitted by requestData()/stop() is still waiting to be appended.
C18_SavedVideoHasFinalChunk ==
  [][(last' = "K_stopRecording" /\ lastSaved' = "video"
        /\ kState.canvasRecorder # NoRef
        /\ recorders[kState.canvasRecorder] = "recording")
       => savedVideo'.notYetAppended = 0]_vars

\* C20: when initialize() succeeds, then once the renders and effects it
\* causes have run, isInitialized is true and the session and the media
\* stream are held in state and running (nothing has run cleanup).
C20_InitializedStaysHeld ==
  [][(last' = "K_ApplyLensSettled" /\ lastOutcome' = "ok")
       => /\ cState'.isInitialized
          /\ cState'.session # NoRef
          /\ cState'.userMediaStream # NoRef
          /\ \A id \in 1..Len(cStreams') : cStreams'[id] = cStreams[id]
          /\ cSessions' = cSessions]_vars

\* ---------------------------------------------------------------------
\* Further claims about CameraPreview
\* ---------------------------------------------------------------------

\* C11: when the page becomes hidden, then after handleVisibilityChange the
\* tracks of the media stream that was in state and of the processed canvas
\* stream are stopped, the MediaRecorder is not recording, isReady is
\* false, mediaStream is null and isRecording is false.
C11_HiddenReleasesCamera ==
  [][(last' = "handleVisibilityChange" /\ visibility' = "hidden")
       => /\ (mediaStream # NULL => ~streamLive')
          /\ ~processedLive'
          /\ mediaRecorderRef' # "recording"
          /\ ~isReady'
          /\ mediaStream' = NULL
          /\ ~isRecording']_vars

\* C11 witness: the page has just become hidden while the camera stream and
\* the processed stream were live and the recorder was recording; all three
\* are stopped now.
C11_Witness ==
  /\ last = "handleVisibilityChange"
  /\ visibility = "hidden"
  /\ stoppedByHide = [stream |-> TRUE, processed |-> TRUE, recorder |-> TRUE]
  /\ ~streamLive
  /\ ~processedLive
  /\ mediaRecorderRef = "inactive"
  /\ mediaStream = NULL

\* C12: no compositing loop runs for a canvas whose effect run has been
\* cleaned up, also when the hidden video's metadata load only after the
\* cleanup; hence at most one loop (that of the current canvas) is active.
C12_NoLoopAfterCleanup == staleLoops = 0

\* C19: the video that stopRecording passes to onCapture holds no chunk of
\* an earlier recording of the same MediaRecorder.
C19_VideoHasOwnChunksOnly == last = "stopRecording" => lastVideo.earlier = 0

\* ---------------------------------------------------------------------
\* Further claims about useCameraKit (camera and session)
\* ---------------------------------------------------------------------

\* C21: when initialize() fails after it has acquired the camera stream
\* (at setSource, loadLens or applyLens), every track of that stream is
\* stopped and its session is paused, and state ends with error set,
\* isInitialized false and cameraKit, session and userMediaStream null.
C21_FailedInitReleases ==
  [][(/\ Len(cProcs) = 1
      /\ cProcs[1].kind = "init"
      /\ cProcs[1].stream # NoRef
      /\ lastOutcome' = "failed")
       => /\ ~cStreams'[cProcs[1].stream].video
          /\ ~cStreams'[cProcs[1].stream].audio
          /\ cSessions'[cProcs[1].session] = "paused"
          /\ cState'.error # NULL
          /\ ~cState'.isInitialized
          /\ cState'.cameraKit = NoRef
          /\ cState'.session = NoRef
          /\ cState'.userMediaStream = NoRef]_vars

\* ---------------------------------------------------------------------
\* Further claims about useCameraKitDirect
\* ---------------------------------------------------------------------

\* C22: no second CameraKit is bootstrapped and no second session is created
\* while the hook holds one: a bootstrap completes only when cameraKitRef is
\* null and a session is created only when sessionRef is null, however the
\* invocations of initialize() overlap.
C22_SingleBootstrapAndSession ==
  [][/\ (last' = "BootstrapSettled" /\ kits' > kits) => cameraKitRef = NoRef
     /\ (last' = "CreateSessionSettled" /\ Len(sessions') > Len(sessions))
          => sessionRef = NoRef]_vars

\* C23: when getUserMedia rejects in a setCameraSide called by
\* switchCamera(), currentCamera and state.error keep their values and the
\* rejection reaches the caller of switchCamera.
C23_FailedSwitchKeepsCamera ==
  [][(/\ last' = "GetUserMediaSettled"
      /\ streams' = streams
      /\ \E i \in 1..Len(procs) :
            procs[i].kind = "switch" /\ procs[i].pc = "getUserMedia" /\ procs' = Drop(i))
       => /\ dState'.currentCamera = dState.currentCamera
          /\ dState'.error = dState.error
          /\ thrown' = "switch"]_vars

\* C23 witness: the hook is initialized on the back camera, a switch to the
\* front camera has just failed at getUserMedia, and the rejection was thrown.
C23_Witness ==
  /\ last = "GetUserMediaSettled"
  /\ thrown = "switch"
  /\ dState.isInitialized
  /\ dState.currentCamera = "BACK"
  /\ switchCount = 0
  /\ procs = <<>>
  /\ Len(streams) = 1

\* C24: a VideoRecorder never has two recordings active: at most one
\* MediaRecorder it created is recording, and every live microphone stream
\* is referenced by the instance (as audioStream or inside combinedStream).
C24_AtMostOneRecording ==
  /\ Cardinality({r \in 1..Len(vrRecorders) : vrRecorders[r].state = "recording"}) <= 1
  /\ \A a \in 1..Len(audioTracks) :
       audioTracks[a] => (a = vr.audioStream \/ a = vr.combinedStream[2])

\* C25: when a promise of stopRecording resolves while the instance holds a
\* recording that was started after that stopRecording call, the blob has
\* exactly the chunks of the stopped recorder, and the new MediaRecorder is
\* kept and its tracks stay live.
C25_PendingStopLeavesNewRecording ==
  [][(/\ vrResult'.outcome = "resolved"
      /\ vr.mediaRecorder # NoRef
      /\ vrRecorders[vr.mediaRecorder].duringStop)
     => /\ Len(vrResult'.blob) = vrRecorders'[vrResult'.of].produced
        /\ \A k \in 1..Len(vrResult'.blob) : vrResult'.blob[k] = vrResult'.of
        /\ vr'.mediaRecorder = vr.mediaRecorder
        /\ canvasTracks'[vrRecorders[vr.mediaRecorder].canvas]
        /\ audioTracks'[vrRecorders[vr.mediaRecorder].audio]]_vars

\* C26: in the step that resolves a promise of stopRecording, the tracks of
\* the canvas and microphone streams of the stopped recording (the tracks of
\* its combined stream) are stopped, the three stream references and
\* mediaRecorder are null, recordedChunks is empty and isRecording is false.
C26_ResolvedStopReleasedAll ==
  [][vrResult'.outcome = "resolved"
     => /\ ~canvasTracks'[vrRecorders[vrResult'.of].canvas]
        /\ ~audioTracks'[vrRecorders[vrResult'.of].audio]
        /\ vr'.audioStream = NoRef
        /\ vr'.canvasStream = NoRef
        /\ vr'.combinedStream = NoCombined
        /\ vr'.mediaRecorder = NoRef
        /\ vr'.recordedChunks = <<>>
        /\ ~vr'.isRecording]_vars

\* C27: no promise of stopRecording is rejected; it resolves with the MP4
\* blob when the conversion succeeded and with the WebM blob otherwise; with
\* skipConversion nothing is converted and FFmpeg is never created.
C27_ConversionFailureResolvesWebM ==
  /\ vrResult.outcome # "rejected"
  /\ vrResult.outcome = "resolved"
       => vrResult.format = (IF vrResult.converted THEN "mp4" ELSE "webm")
  /\ skipConversion => (vr.ffmpeg = NULL /\ ~vrResult.converted)

\* both loads of FFmpeg have failed and stopRecording has resolved with the
\* chunks recorded
C27_Witness ==
  /\ ~skipConversion
  /\ last = "VR_LoadCdnSettled"
  /\ vrResult.outcome = "resolved"
  /\ vrResult.format = "webm"
  /\ Len(vrResult.blob) = 2
  /\ vr.ffmpeg = "unloaded"

\* C28: stopRecording called while isRecording is false or mediaRecorder is
\* null throws and changes no field, no track and no MediaRecorder.
C28_StopWhenIdleThrows ==
  [][(last' = "VR_stopRecording" /\ (~vr.isRecording \/ vr.mediaRecorder = NoRef))
     => /\ vrResult'.outcome = "threw"
        /\ vr' = vr
        /\ UNCHANGED <<vrRecorders, canvasTracks, audioTracks, vrProcs>>]_vars

\* stopRecording called a second time while the first stop is still pending
C28_Witness ==
  /\ last = "VR_stopRecording"
  /\ vrResult.outcome = "threw"
  /\ ~vr.isRecording
  /\ vr.mediaRecorder # NoRef
  /\ vrRecorders[vr.mediaRecorder].stopPending

\* C29: whenever isRecording is true, mediaRecorder, canvasStream,
\* audioStream and combinedStream are all non-null.
C29_RecordingHasStreams ==
  vr.isRecording => /\ vr.mediaRecorder # NoRef
                    /\ vr.canvasStream # NoRef
                    /\ vr.audioStream # NoRef
                    /\ vr.combinedStream # NoCombined

\* a second recording is running after the first one was stopped and
\* cleaned up
C29_Witness ==
  /\ last = "VR_MicSettled"
  /\ vr.isRecording
  /\ vr.mediaRecorder = 2
  /\ vrRecorders[1].state = "inactive"
  /\ ~vrRecorders[1].stopPending
  /\ ~canvasTracks[1]

\* C30: start() on a fresh CanvasRecorder stores the codec string and the
\* container of the first entry of settings.recodeVideoCodecs whose codec
\* string is supported, and the MediaRecorder it creates has that codec
\* string as its mimeType; when no entry is supported it throws 'No
\* supported video format found' and creates no MediaRecorder.
C30_FirstSupportedCodec ==
  [][(last' = "CR_start" /\ canvasRec = FreshCanvasRecorder)
     => LET sup == {i \in 1..Len(codecSettings) : codecSettings[i].codecString \in typeSupported}
        IN IF sup = {}
             THEN /\ startError' = "No supported video format found"
                  /\ canvasRec'.mediaRecorder.state = NULL
             ELSE LET first == CHOOSE i \in sup : \A j \in sup : i <= j
                  IN /\ canvasRec'.supportedCodec = codecSettings[first].codecString
                     /\ canvasRec'.recordFormat = codecSettings[first].container
                     /\ startError' # "No supported video format found"
                     /\ canvasRec'.mediaRecorder.state # NULL
                          => canvasRec'.mediaRecorder.mimeType = codecSettings[first].codecString
                     /\ startError' = NoError
                          => /\ canvasRec'.mediaRecorder.state # NULL
                             /\ canvasRec'.mediaRecorder.state = "recording"]_vars

\* the first entry is not supported, the second is and is recorded with
C30_Witness ==
  /\ last = "CR_start"
  /\ startError = NoError
  /\ Len(codecSettings) = 2
  /\ codecSettings[1].codecString \notin typeSupported
  /\ codecSettings[2].codecString \in typeSupported
  /\ canvasRec.mediaRecorder.state = "recording"
  /\ canvasRec.mediaRecorder.mimeType = codecSettings[2].codecString
  /\ canvasRec.recordFormat = codecSettings[2].container

\* C31: after share(), when canShare was absent or false or navigator.share
\* rejected, save() has been called exactly once, with the file name given
\* to share(), and the promise of share() is not rejected.
C31_ShareFallsBackToSave ==
  (last = "CR_share" /\ (shareStep.canShare # "true" \/ shareStep.shareRejected))
    => /\ shareStep.saveCalls = <<shareStep.fileName>>
       /\ shareStep.outcome = "resolved"

\* C32: no step of the component invokes start() on a MediaRecorder that is
\* not inactive or stop() on one that is not recording.
C32_RecorderCallsInState == ~recorderMisused

\* the recorder was recording when the page was hidden, and was stopped
C32_Witness ==
  /\ last = "handlePageHide"
  /\ mediaRecorderRef = "inactive"
  /\ lastVideo # NoChunks
  /\ ~recorderMisused

\* C33 (the part on recordings): while isRecording is true no step changes
\* the camera facing, the selected device or the capture mode.
C33_ControlsLockedWhileRecording ==
  [][isRecording => (facing' = facing /\ mode' = mode)]_vars

\* C34: the step in which facing or the selected device changes leaves
\* isReady false, error null, mediaStream null, isRecording false and
\* retryCount 0, no recorder recording, the processed stream's tracks
\* stopped and no animation frame of a compositing loop pending; the step
\* in which a delay timer fires leaves isInitializing false.
C34_ResetEffectResets ==
  [][/\ last' = "onFacingChange"
          => /\ ~isReady'
             /\ error' = NULL
             /\ mediaStream' = NULL
             /\ ~isRecording'
             /\ retryCount' = 0
             /\ mediaRecorderRef' # "recording"
             /\ ~processedLive'
             /\ animationFrameRef' \notin {"current", "stale"}
             /\ canvasVideo' # "looping"
             /\ staleLoops' = 0
     /\ last' = "DoneTimerFire" => ~isInitializing']_vars

\* C35: after the initial check and after every resize event, isMobile says
\* that the user agent contains a mobile keyword or that the device is
\* touch-capable and the window is at most 768 wide; in particular it is
\* false on a device without touch whose user agent has no mobile keyword.
C35_IsMobileMatchesDevice ==
  last \in {"MD_Mount", "MD_Resize"}
    => mdState.isMobile =
         (\/ \E token \in mdEnv.userAgent : LowerCase(token) \in MobileKeywords
          \/ /\ (mdEnv.onTouchStart \/ mdEnv.maxTouchPoints > 0)
             /\ mdEnv.innerWidth <= 768)

\* a touch device without a mobile user agent, resized to exactly 768
C35_Witness ==
  /\ last = "MD_Resize"
  /\ mdState.isMobile
  /\ mdEnv.userAgent = {"Macintosh"}
  /\ mdEnv.maxTouchPoints = 1
  /\ mdEnv.innerWidth = 768

====
